---- MODULE Spec2Model ----
(***************************************************************************)
(* Verification model of NVIDIA/k8s-driver-manager.                        *)
(*                                                                         *)
(*   SpecEnc  the label encoder (maybeSetPaused / maybeSetTrue) applied to *)
(*            bounded label values                                         *)
(*   SpecGpu  the GPU occupancy classifier (gpuPodSpecFilter) next to the  *)
(*            ResourceClaimCache fed by claim events                       *)
(*   Spec     one run of DriverManager.uninstallDriver against a node      *)
(*   SpecCache    the ResourceClaimCache fed by the events of two claims   *)
(*   SpecMod      one module unload by the Go engine or by the script      *)
(*   SpecRestart  Spec with the process interrupted and started again      *)
(*   SpecForced   Spec with an external actor forcing a label to "false"   *)
(*   SpecAlias    one comparison of a device modalias with a pattern       *)
(*   SpecUnbind   the device rebinding step running vfio-manage unbind     *)
(*   SpecDrain    the node drain listing and evicting the pods of a node   *)
(*   SpecConc     ResourceClaimCache.Start, the informer callbacks and     *)
(*                readers of the cache as interleaved threads              *)
(*   SpecConcLive SpecConc with fair scheduling of its threads             *)
(*   SpecLive     Spec on a schedulable node, with fair scheduling         *)
(*   SpecBest     findBestVFIOVariant over bounded lists of vfio aliases   *)
(*                                                                         *)
(* Strings are TLA+ strings; the string functions of the Go standard       *)
(* library that the code calls are computed character by character.        *)
(***************************************************************************)
EXTENDS Integers, Sequences, FiniteSets, TLC

VARIABLES
    encHist,        \* label encoder: the input value followed by each result
    encOps,         \* label encoder: the functions applied so far
    podUIDs,        \* ResourceClaimCache.podUIDs
    claims,         \* the ResourceClaim objects that exist in the cluster
    lastPod,        \* classifier: the pod classified last
    lastVerdict,    \* classifier: the result of gpuPodSpecFilter for lastPod
    lastEvent,      \* ResourceClaimCache: the claim event handled last
    pc,             \* uninstallDriver: position of the run
    cfg,            \* DriverManager.config (the flags read more than once)
    components,     \* DriverManager.components (componentState)
    nodeLabels,     \* the node's labels in the cluster
    labels0,        \* the node's labels before the run
    unschedulable,  \* node.Spec.Unschedulable
    driverLoaded,   \* /sys/module/nvidia/refcnt exists
    calls,          \* the collaborator calls of the run, in order
    writes,         \* the label maps passed to UpdateNodeLabels, in order
    gpuPods,        \* GPU pods identified / deletable / evicted by DeleteOrEvictPods
    result,         \* what uninstallDriver returned
    failedStep,     \* the step whose error uninstallDriver returned
    skipArgs,       \* what shouldSkipUninstall is about to read
    forced,         \* the labels an external actor has set to "false"
    interrupted,    \* a run was interrupted after its pause write
    timedOut,       \* the selector whose pods outlasted the grace period
    mofed,          \* what the GPUDirect RDMA step reads: flags, devices, MOFED
    sysModules,     \* /sys/module/<name>/refcnt of the loaded driver modules
    unload,         \* module unload: the engine that ran and what it did
    lastMatch,      \* nvpci: the modalias comparison made last
    bound,          \* vfio-manage: the driver each NVIDIA device is bound to
    unbindTodo,     \* vfio-manage unbind --all: the devices not yet visited
    vfioPos,        \* vfio-manage unbind --all: position of the command
    exitStatus,     \* vfio-manage unbind --all: exit status, -1 while running
    nodePods,       \* DeleteOrEvictPods: the pods on the node
    drain,          \* DeleteOrEvictPods: its position, locals and result
    rcc,            \* ResourceClaimCache: mu, synced and stopCh
    ctxDone,        \* the context passed to Start has been cancelled
    threads,        \* the goroutines around the cache: position and locals
    lastBest        \* nvpci: the driver selection made last

encVars == <<encHist, encOps>>
gpuVars == <<podUIDs, claims, lastPod, lastVerdict, lastEvent>>
modVars == <<sysModules, unload>>
vfioVars == <<bound, unbindTodo, vfioPos, exitStatus>>
pciVars == <<lastMatch, bound, unbindTodo, vfioPos, exitStatus>>
drainVars == <<nodePods, drain>>
\* the variables of the specifications of single collaborators
concVars == <<rcc, ctxDone, threads>>
bestVars == <<lastBest>>
auxVars == <<nodePods, drain, rcc, ctxDone, threads, lastBest>>
\* what happens to the node and to the process from outside a run
envVars == <<forced, interrupted, timedOut, mofed>>

runVars == <<pc, cfg, components, nodeLabels, labels0, unschedulable,
             driverLoaded, calls, writes, gpuPods, result, failedStep,
             skipArgs, forced, interrupted, timedOut, mofed>>
vars == <<encHist, encOps, podUIDs, claims, lastPod, lastVerdict, lastEvent,
          pc, cfg, components, nodeLabels, labels0, unschedulable,
          driverLoaded, calls, writes, gpuPods, result, failedStep, sysModules, unload, skipArgs, forced, interrupted,
          lastMatch, timedOut, mofed, bound, unbindTodo, vfioPos, exitStatus,
          nodePods, drain, rcc, ctxDone, threads, lastBest>>

(***************************************************************************)
(* Bounds                                                                  *)
(***************************************************************************)
\* a label value of the encoder specification is built from at most MaxParts pieces
MaxParts == 3
\* the encoder is applied at most MaxEncOps times to one value
MaxEncOps == 2

\* WaitForPodTermination lists the pods at most MaxPolls times before the
\* grace period is over
MaxPolls == 2

(***************************************************************************)
(* Go standard library string functions used by the code                   *)
(***************************************************************************)
\* strings.HasPrefix
HasPrefix(s, prefix) ==
    /\ Len(s) >= Len(prefix)
    /\ SubSeq(s, 1, Len(prefix)) = prefix

\* strings.Contains
Contains(s, substr) ==
    \E i \in 1..(Len(s) - Len(substr) + 1) :
        SubSeq(s, i, i + Len(substr) - 1) = substr

\* the suffix of s from position i (s[i-1:] in Go)
From(s, i) == SubSeq(s, i, Len(s))

RECURSIVE TrimLeft(_, _)
\* strings.TrimLeft with a one-character cutset
TrimLeft(s, c) ==
    IF Len(s) > 0 /\ SubSeq(s, 1, 1) = c THEN TrimLeft(From(s, 2), c) ELSE s

RECURSIVE TrimRight(_, _)
\* strings.TrimRight with a one-character cutset
TrimRight(s, c) ==
    IF Len(s) > 0 /\ SubSeq(s, Len(s), Len(s)) = c
    THEN TrimRight(SubSeq(s, 1, Len(s) - 1), c)
    ELSE s

\* strings.Trim(result, "_") is called with a one-character cutset
Trim(s, c) == TrimRight(TrimLeft(s, c), c)

(***************************************************************************)
(* Label encoder (cmd/driver-manager)                                      *)
(***************************************************************************)
pausedStr == "paused-for-driver-upgrade"

RECURSIVE ReplaceAllPaused(_)
\* regexp.MustCompile(pausedStr + "_?").ReplaceAllString(s, ""): every
\* leftmost non-overlapping match of the marker, with the underscore that
\* follows it when there is one, is deleted
ReplaceAllPaused(s) ==
    IF s = "" THEN ""
    ELSE IF HasPrefix(s, pausedStr)
         THEN LET rest == From(s, Len(pausedStr) + 1)
              IN  IF HasPrefix(rest, "_")
                  THEN ReplaceAllPaused(From(rest, 2))
                  ELSE ReplaceAllPaused(rest)
         ELSE SubSeq(s, 1, 1) \o ReplaceAllPaused(From(s, 2))

\* mutant: a value that is already paused is paused once more
maybeSetPaused_Repause(currentValue) ==
    IF currentValue = "" THEN ""
    ELSE IF currentValue = "false" THEN "false"
    ELSE IF currentValue = "true" THEN pausedStr
    ELSE currentValue \o "_" \o pausedStr

\* mutant: an explicit "false" is paused like any other value
maybeSetPaused_NoOverride(currentValue) ==
    IF currentValue = "" THEN ""
    ELSE IF currentValue = "true" \/ currentValue = "false" THEN pausedStr
    ELSE IF Contains(currentValue, pausedStr) THEN currentValue
    ELSE currentValue \o "_" \o pausedStr

maybeSetPaused(currentValue) ==
    IF currentValue = "" THEN ""
    ELSE IF currentValue = "false" THEN "false"
    ELSE IF currentValue = "true" THEN pausedStr
    ELSE IF Contains(currentValue, pausedStr) THEN currentValue
    ELSE currentValue \o "_" \o pausedStr

\* mutant: the separator left behind by the marker is not trimmed
maybeSetTrue_NoTrim(currentValue) ==
    IF currentValue = "false" THEN "false"
    ELSE IF currentValue = pausedStr THEN "true"
    ELSE ReplaceAllPaused(currentValue)

\* mutant: every value that is not "false" is resumed to "true"
maybeSetTrue_AlwaysTrue(currentValue) ==
    IF currentValue = "false" THEN "false" ELSE "true"

maybeSetTrue(currentValue) ==
    IF currentValue = "false" THEN "false"
    ELSE IF currentValue = pausedStr THEN "true"
    ELSE Trim(ReplaceAllPaused(currentValue), "_")

(***************************************************************************)
(* Label values: Kubernetes accepts a label value only if it is empty or   *)
(* begins and ends with an alphanumeric character, so a value read from a  *)
(* node never begins or ends with "_" or "-".                              *)
(***************************************************************************)
Pieces == {"true", "false", "a", "_", "-", pausedStr}

RECURSIVE Concats(_)
\* the strings made of exactly n pieces
Concats(n) ==
    IF n = 0 THEN {""}
    ELSE {p \o s : p \in Pieces, s \in Concats(n - 1)}

IsLabelValue(s) ==
    \/ s = ""
    \/ /\ SubSeq(s, 1, 1) \notin {"_", "-"}
       /\ SubSeq(s, Len(s), Len(s)) \notin {"_", "-"}

LabelValues ==
    {s \in UNION {Concats(n) : n \in 0..MaxParts} : IsLabelValue(s)}

(***************************************************************************)
(* GPU occupancy classifier and ResourceClaimCache (internal/kubernetes)   *)
(***************************************************************************)
\* a ResourceClaim does not list more than MaxReserved consumers here
MaxReserved == 2
\* a pod has at most MaxContainers containers here
MaxContainers == 2

nvidiaDomainPrefix == "nvidia.com"
nvidiaResourceNamePrefix == nvidiaDomainPrefix \o "/" \o "gpu"
nvidiaMigResourcePrefix == nvidiaDomainPrefix \o "/" \o "mig-"
nvidiaDRADriverName == "gpu.nvidia.com"

\* mutant: only the whole-GPU resource prefix is recognised
gpuInResourceList_NoMig(rl) ==
    \E resourceName \in rl : HasPrefix(resourceName, nvidiaResourceNamePrefix)

\* the closure gpuInResourceList of gpuPodSpecFilter
gpuInResourceList(rl) ==
    \E resourceName \in rl :
        \/ HasPrefix(resourceName, nvidiaResourceNamePrefix)
        \/ HasPrefix(resourceName, nvidiaMigResourcePrefix)

\* gpuPodSpecFilter reads pod.Spec.Containers only; it has no access to a
\* ResourceClaimCache
gpuPodSpecFilter(pod) ==
    \E i \in 1..Len(pod.containers) :
        \/ gpuInResourceList(pod.containers[i].limits)
        \/ gpuInResourceList(pod.containers[i].requests)

\* mutant: every allocated claim counts as a GPU claim
isNvidiaGPUClaim_AnyAllocated(claim) == claim.allocated

\* ResourceClaimCache.isNvidiaGPUClaim
isNvidiaGPUClaim(claim) ==
    IF ~claim.allocated THEN FALSE
    ELSE \E i \in 1..Len(claim.results) : claim.results[i] = nvidiaDRADriverName

\* mutant: every consumer of the claim is taken for a pod
updatePodUIDs_AnyResource(uids, claim, add) ==
    IF ~isNvidiaGPUClaim(claim) THEN uids
    ELSE LET pods == {claim.reservedFor[i].uid : i \in 1..Len(claim.reservedFor)}
         IN  IF add THEN uids \cup pods ELSE uids \ pods

\* ResourceClaimCache.updatePodUIDs, as a function of the set it updates
updatePodUIDs(uids, claim, add) ==
    IF ~isNvidiaGPUClaim(claim) THEN uids
    ELSE LET refs == {claim.reservedFor[i] : i \in 1..Len(claim.reservedFor)}
             pods == {ref.uid : ref \in {r \in refs : r.resource = "pods"}}
         IN  IF add THEN uids \cup pods ELSE uids \ pods

\* ResourceClaimCache.PodUsesNvidiaGPU
PodUsesNvidiaGPU(podUID) == podUID \in podUIDs

UIDs == {"uid-A", "uid-B"}
ClaimNames == {"claim-1"}
Refs ==
    {[resource |-> "pods", uid |-> "uid-A"],
     [resource |-> "pods", uid |-> "uid-B"],
     [resource |-> "resourceclaims", uid |-> "uid-A"]}

RECURSIVE SeqsUpTo(_, _)
\* the sequences over S of length at most n
SeqsUpTo(S, n) ==
    IF n = 0 THEN {<<>>}
    ELSE LET shorter == SeqsUpTo(S, n - 1)
         IN  shorter \cup {Append(q, x) : q \in shorter, x \in S}

\* the claim objects the informer can deliver: a claim without allocation
\* (Status.Allocation == nil) or with the drivers of its allocated devices
ClaimSamples ==
    [name : ClaimNames, allocated : {FALSE}, results : {<<>>},
     reservedFor : SeqsUpTo(Refs, MaxReserved)]
    \cup
    [name : ClaimNames, allocated : {TRUE},
     results : {<<>>, <<nvidiaDRADriverName>>, <<"dra.example.com">>,
                <<"dra.example.com", nvidiaDRADriverName>>},
     reservedFor : SeqsUpTo(Refs, MaxReserved)]

ResourceLists ==
    {{}, {"cpu"}, {"nvidia.com/gpu"}, {"cpu", "nvidia.com/mig-1g.5gb"},
     {"nvidia.com/mig"}}

\* a container with its resource limits and requests
Containers ==
    [limits : ResourceLists, requests : {{}}]
    \cup [limits : {{}}, requests : {{"nvidia.com/gpu"}, {"cpu", "nvidia.com/mig-1g.5gb"}}]

\* the pods handed to the classifier; resourceClaims tells whether
\* pod.Spec.ResourceClaims is non-empty
PodSamples ==
    [uid : UIDs, resourceClaims : BOOLEAN,
     containers : SeqsUpTo(Containers, MaxContainers)]

NoPod == [uid |-> "", resourceClaims |-> FALSE, containers |-> <<>>]

\* a reference of Status.ReservedFor to the pod with this UID
PodRef(uid) == [resource |-> "pods", uid |-> uid]

\* the pods and claims whose events the cache handles when two claims exist
CacheUIDs == {"uid-A", "uid-B", "uid-C"}
CacheClaimNames == {"claim-1", "claim-2"}

\* the Status.ReservedFor lists of those claims
ReservedSamples ==
    {<<>>,
     <<PodRef("uid-A")>>,
     <<PodRef("uid-A"), PodRef("uid-B")>>,
     <<PodRef("uid-B"), PodRef("uid-C")>>,
     <<PodRef("uid-A"), [resource |-> "resourceclaims", uid |-> "uid-C"], PodRef("uid-B")>>}

\* the objects of those claims: without allocation, allocated by another
\* driver, or allocated by the GPU driver
CacheClaimSamples ==
    [name : CacheClaimNames, allocated : {FALSE}, results : {<<>>},
     reservedFor : ReservedSamples]
    \cup
    [name : CacheClaimNames, allocated : {TRUE},
     results : {<<"dra.example.com">>, <<"dra.example.com", nvidiaDRADriverName>>},
     reservedFor : ReservedSamples]

NoClaim == [name |-> "", allocated |-> FALSE, results |-> <<>>, reservedFor |-> <<>>]

\* no claim event has been handled
NoEvent == [kind |-> "none", old |-> NoClaim, new |-> NoClaim, before |-> {}]

(***************************************************************************)
(* Driver lifecycle orchestrator (cmd/driver-manager): data                *)
(***************************************************************************)
nvidiaDriverDeployLabel == nvidiaDomainPrefix \o "/" \o "gpu.deploy.driver"
nvidiaOperatorValidatorDeployLabel == nvidiaDomainPrefix \o "/" \o "gpu.deploy.operator-validator"
nvidiaContainerToolkitDeployLabel == nvidiaDomainPrefix \o "/" \o "gpu.deploy.container-toolkit"
nvidiaDevicePluginDeployLabel == nvidiaDomainPrefix \o "/" \o "gpu.deploy.device-plugin"
nvidiaGFDDeployLabel == nvidiaDomainPrefix \o "/" \o "gpu.deploy.gpu-feature-discovery"
nvidiaDCGMExporterDeployLabel == nvidiaDomainPrefix \o "/" \o "gpu.deploy.dcgm-exporter"
nvidiaDCGMDeployLabel == nvidiaDomainPrefix \o "/" \o "gpu.deploy.dcgm"
nvidiaMIGManagerDeployLabel == nvidiaDomainPrefix \o "/" \o "gpu.deploy.mig-manager"
nvidiaNVSMDeployLabel == nvidiaDomainPrefix \o "/" \o "gpu.deploy.nvsm"
nvidiaSandboxValidatorDeployLabel == nvidiaDomainPrefix \o "/" \o "gpu.deploy.sandbox-validator"
nvidiaSandboxDevicePluginDeployLabel == nvidiaDomainPrefix \o "/" \o "gpu.deploy.sandbox-device-plugin"
nvidiaVGPUDeviceManagerDeployLabel == nvidiaDomainPrefix \o "/" \o "gpu.deploy.vgpu-device-manager"

RECURSIVE DeleteAllPaused(_)
\* sed -r "s/${PAUSED_STR}//g": every occurrence of the marker is deleted
DeleteAllPaused(s) ==
    IF s = "" THEN ""
    ELSE IF HasPrefix(s, pausedStr) THEN DeleteAllPaused(From(s, Len(pausedStr) + 1))
    ELSE SubSeq(s, 1, 1) \o DeleteAllPaused(From(s, 2))

RECURSIVE DeleteUnderscores(_)
\* tr -d "_": every underscore is deleted
DeleteUnderscores(s) ==
    IF s = "" THEN ""
    ELSE IF SubSeq(s, 1, 1) = "_" THEN DeleteUnderscores(From(s, 2))
    ELSE SubSeq(s, 1, 1) \o DeleteUnderscores(From(s, 2))

\* _maybe_set_true of the driver-manager script
_maybe_set_true(current_value) ==
    IF current_value = "false" THEN "false"
    ELSE IF current_value = pausedStr THEN "true"
    ELSE DeleteUnderscores(DeleteAllPaused(current_value))

\* the label key an operator passes as nodeLabelForGPUPodEviction
CustomLabel == "example.com/gpu-client"

\* fetchCurrentLabels reads the component labels in this order
operandLabels ==
    <<nvidiaOperatorValidatorDeployLabel, nvidiaContainerToolkitDeployLabel,
      nvidiaDevicePluginDeployLabel, nvidiaGFDDeployLabel,
      nvidiaDCGMExporterDeployLabel, nvidiaDCGMDeployLabel,
      nvidiaMIGManagerDeployLabel, nvidiaNVSMDeployLabel,
      nvidiaSandboxValidatorDeployLabel, nvidiaSandboxDevicePluginDeployLabel,
      nvidiaVGPUDeviceManagerDeployLabel>>

ComponentLabels == {operandLabels[i] : i \in 1..Len(operandLabels)}

\* componentState: one field per component label, the custom label's value
\* and the annotation's value
ComponentFields == ComponentLabels \cup {"customOperandNodeLabelValue", "autoUpgradePolicyEnabled"}

NodeLabelKeys == ComponentLabels \cup {nvidiaDriverDeployLabel, CustomLabel}

\* the label values a run meets on the node
RunValues == <<"true", "false", "", "a", pausedStr, "a_" \o pausedStr>>

NodeLabelSeq == operandLabels \o <<CustomLabel, nvidiaDriverDeployLabel>>

\* the position of a label key in NodeLabelSeq
KeyIndex(k) == CHOOSE i \in 1..Len(NodeLabelSeq) : NodeLabelSeq[i] = k

\* the labels of a node that runs no sandbox workloads and has no custom label
ContainerWorkloadLabels ==
    NodeLabelKeys \ {nvidiaSandboxValidatorDeployLabel, nvidiaSandboxDevicePluginDeployLabel,
                     nvidiaVGPUDeviceManagerDeployLabel, CustomLabel}

\* the nodes a run starts on: the container-workload components enabled and
\* the other labels absent, or the values of RunValues dealt over all the
\* label keys, once from each starting value
LabelProfiles ==
    {[k \in ContainerWorkloadLabels |-> "true"]}
    \cup {[k \in NodeLabelKeys |->
              RunValues[((KeyIndex(k) + r) % Len(RunValues)) + 1]] :
          r \in 1..Len(RunValues)}

\* the pods a node runs when the GPU pods are evicted
RunPodSamples ==
    {[uid |-> "uid-A", resourceClaims |-> FALSE,
      containers |-> <<[limits |-> {"nvidia.com/gpu"}, requests |-> {}]>>],
     [uid |-> "uid-B", resourceClaims |-> FALSE,
      containers |-> <<[limits |-> {"cpu"}, requests |-> {}],
                       [limits |-> {}, requests |-> {"cpu", "nvidia.com/mig-1g.5gb"}]>>],
     [uid |-> "uid-C", resourceClaims |-> FALSE,
      containers |-> <<[limits |-> {"cpu"}, requests |-> {}]>>]}

(***************************************************************************)
(* Driver lifecycle orchestrator: helpers                                  *)
(***************************************************************************)
\* isDriverAutoUpgradePolicyEnabled
isDriverAutoUpgradePolicyEnabled == components["autoUpgradePolicyEnabled"] = "true"

\* mutant: the upgrade policy annotation is not consulted
isAutoDrainEnabled_NoPolicy == cfg.enableAutoDrain

\* isAutoDrainEnabled
isAutoDrainEnabled ==
    IF isDriverAutoUpgradePolicyEnabled THEN FALSE ELSE cfg.enableAutoDrain

\* mutant: the upgrade policy annotation is not consulted
isGPUPodEvictionEnabled_NoPolicy == cfg.enableGPUPodEviction

\* isGPUPodEvictionEnabled
isGPUPodEvictionEnabled ==
    IF isDriverAutoUpgradePolicyEnabled THEN FALSE ELSE cfg.enableGPUPodEviction

\* mutant: the node is uncordoned only when auto-drain is enabled
ShouldUncordon_AutoDrainOnly == isAutoDrainEnabled

\* mutant: the node is uncordoned whatever the policy says
ShouldUncordon_Always == TRUE

\* the condition guarding UncordonNode in uninstallDriver and cleanupOnFailure
ShouldUncordon == isGPUPodEvictionEnabled \/ isAutoDrainEnabled

\* mutant: a failed version detection counts as a match
shouldSkipUninstall_DetectFailSkips(forceReinstall, loaded, driverVersion, detected) ==
    IF forceReinstall THEN FALSE
    ELSE IF ~loaded THEN FALSE
    ELSE IF driverVersion = "" THEN FALSE
    ELSE IF detected = "" THEN TRUE
    ELSE IF detected # driverVersion THEN FALSE
    ELSE TRUE

\* shouldSkipUninstall; detected = "" stands for a failed version detection
shouldSkipUninstall(forceReinstall, loaded, driverVersion, detected) ==
    IF forceReinstall THEN FALSE
    ELSE IF ~loaded THEN FALSE
    ELSE IF driverVersion = "" THEN FALSE
    ELSE IF detected = "" THEN FALSE
    ELSE IF detected # driverVersion THEN FALSE
    ELSE TRUE

\* the component state a label key of an operandLabels map is computed from
StateOf(k) ==
    IF k = cfg.nodeLabelForGPUPodEviction
    THEN components["customOperandNodeLabelValue"]
    ELSE components[k]

\* the keys of the operandLabels map built by evictAllGPUOperatorComponents
\* and by rescheduleGPUOperatorComponents
OperandKeys ==
    (ComponentLabels \ {nvidiaMIGManagerDeployLabel})
    \cup (IF components[nvidiaMIGManagerDeployLabel] # ""
          THEN {nvidiaMIGManagerDeployLabel} ELSE {})
    \cup (IF components["customOperandNodeLabelValue"] # ""
          THEN {cfg.nodeLabelForGPUPodEviction} ELSE {})

\* operandLabels of evictAllGPUOperatorComponents
PausedLabels == [k \in OperandKeys |-> maybeSetPaused(StateOf(k))]

\* operandLabels of rescheduleGPUOperatorComponents
ResumedLabels == [k \in OperandKeys |-> maybeSetTrue(StateOf(k))]

\* Client.GetNodeLabelValue on success: node.Labels[label], "" if absent
GetNodeLabelValue(labels, label) ==
    IF label \in DOMAIN labels THEN labels[label] ELSE ""

\* Client.UpdateNodeLabels on success: node.Labels[k] = v for every entry
Relabel(labels, m) ==
    [k \in DOMAIN labels \cup DOMAIN m |-> IF k \in DOMAIN m THEN m[k] ELSE labels[k]]

\* the selectors waitForPodsToTerminate waits for, in order
PodSelectors ==
    <<"nvidia-operator-validator", "nvidia-container-toolkit-daemonset",
      "nvidia-device-plugin-daemonset", "gpu-feature-discovery",
      "nvidia-dcgm-exporter", "nvidia-dcgm">>
    \o (IF components[nvidiaMIGManagerDeployLabel] # ""
        THEN <<"nvidia-mig-manager">> ELSE <<>>)
    \o (IF components[nvidiaSandboxValidatorDeployLabel] # ""
        THEN <<"nvidia-sandbox-validator">> ELSE <<>>)
    \o (IF components[nvidiaSandboxDevicePluginDeployLabel] # ""
        THEN <<"nvidia-sandbox-device-plugin-daemonset">> ELSE <<>>)
    \o (IF components[nvidiaVGPUDeviceManagerDeployLabel] # ""
        THEN <<"nvidia-vgpu-device-manager">> ELSE <<>>)

\* n calls of op in a row; all succeed unless failLast
Repeated(op, n, failLast) ==
    [i \in 1..n |-> [op |-> op, ok |-> ~(failLast /\ i = n)]]

Call(op, ok) == [op |-> op, ok |-> ok]

\* what the polls of one WaitForPodTermination find, up to the poll that
\* ends the wait: pods of the selector are still present, until they are gone
\* or the List call fails or the grace period is over
PollSamples ==
    {[i \in 1..j |-> IF i < j THEN "present" ELSE last] :
         j \in 1..MaxPolls, last \in {"gone", "listError"}}
    \cup {[i \in 1..MaxPolls |-> "present"]}

\* the pods of the selector were on the node at every poll of the grace period
StillPresentAtExpiry(polls) ==
    Len(polls) = MaxPolls /\ \A i \in 1..MaxPolls : polls[i] = "present"

RECURSIVE PollFrom(_, _)
\* wait.PollUntilContextTimeout with the condition of WaitForPodTermination,
\* from poll i on
PollFrom(i, polls) ==
    IF i > MaxPolls THEN "timeout"
    ELSE IF polls[i] = "listError" THEN "listError"
    ELSE IF polls[i] = "gone" THEN "ok"
    ELSE PollFrom(i + 1, polls)

\* mutant: a wait that runs out of time returns nil
WaitForPodTermination_SilentTimeout(polls) ==
    IF PollFrom(1, polls) = "timeout" THEN "ok" ELSE PollFrom(1, polls)

\* Client.WaitForPodTermination
WaitForPodTermination(polls) == PollFrom(1, polls)

\* Client.DeleteOrEvictPods: the outcome for toDelete GPU pods on the node of
\* which the drain helper accepts canDelete
DeleteOrEvictPodsStatus(listOK, toDelete, canDelete, evictOK) ==
    IF ~listOK THEN "listFailed"
    ELSE IF toDelete = 0 THEN "noGpuPods"
    ELSE IF canDelete # toDelete THEN "mismatch"
    ELSE IF ~evictOK THEN "evictFailed"
    ELSE "evicted"

\* mutant: a successful cleanup leaves the nvidia module loaded
LoadedAfterCleanup_Stays(outcome, loaded) == loaded

\* /sys/module/nvidia/refcnt after cleanupDriver: unloadDriver succeeds only
\* if every loaded module was removed
LoadedAfterCleanup(outcome, loaded) ==
    IF outcome = "unloadFailed" THEN loaded ELSE FALSE

\* DeleteOrEvictPods has not run
NoEviction == [toDelete |-> 0, canDelete |-> 0, evicted |-> 0, status |-> "skipped"]

CleanupOutcomes == {"ok", "unloadFailed", "unmountFailed"}

\* shouldSkipUninstall is not running
NoSkipArgs == [forceReinstall |-> FALSE, driverVersion |-> "", detected |-> ""]

\* config.forceReinstall, config.driverVersion and the version that
\* detectCurrentDriverVersion finds ("" when both detection methods fail)
SkipArgSamples ==
    [forceReinstall : BOOLEAN, driverVersion : {"", "550.54"},
     detected : {"", "550.54", "535.10"}]

(***************************************************************************)
(* Module unload engine: unloadDriver (Go) and _unload_driver (script)     *)
(***************************************************************************)
\* a dependent module has a reference count of at most MaxModRefs here
MaxModRefs == 1
\* processes hold at most MaxUserRefs handles on the base module here
MaxUserRefs == 1

baseModule == "nvidia"

\* unloadDriver: modules, the order in which the modules are visited
modules ==
    <<"nvidia_modeset", "nvidia_uvm", "nvidia_peermem", "nvidia_fs",
      "nvidia_vgpu_vfio", "gdrdrv", "nvidia">>

\* every module except the base one
DependentModules == {modules[i] : i \in 1..Len(modules)} \ {baseModule}

\* the handles a loaded dependent module holds on the base module;
\* nvidia_vgpu_vfio holds 2
Handles(m) == IF m = "nvidia_vgpu_vfio" THEN 2 ELSE 1

RECURSIVE SumHandles(_)
SumHandles(D) ==
    IF D = {} THEN 0
    ELSE LET m == CHOOSE x \in D : TRUE IN Handles(m) + SumHandles(D \ {m})

\* the reference counts under /sys/module: nothing loaded, or the base
\* module with some dependent modules, its count being the handles of the
\* dependents plus those of processes
ModuleStates ==
    {[m \in {} |-> 0]}
    \cup
    UNION {{[m \in D \cup {baseModule} |->
                IF m = baseModule THEN SumHandles(D) + user ELSE refs[m]] :
            refs \in [D -> 0..MaxModRefs], user \in 0..MaxUserRefs} :
           D \in SUBSET DependentModules}

\* delete_module(2) removes a loaded module whose reference count is zero
CanDelete(mods, m) == m \in DOMAIN mods /\ mods[m] = 0

\* the reference counts after the module is removed: a removed dependent
\* drops its handles on the base module
AfterDelete(mods, m) ==
    [k \in DOMAIN mods \ {m} |->
        IF k = baseModule THEN mods[k] - Handles(m) ELSE mods[k]]

\* no module unload has run
NoUnload ==
    [engine |-> "none", status |-> "none", refused |-> FALSE, operands |-> <<>>,
     removed |-> {}, before |-> <<>>]

RECURSIVE unloadDriverFrom(_, _, _, _)
\* unloadDriver: the loop over modules from position i, with the reference
\* counts so far, the modules DeleteModule was called for and whether a
\* call has failed; the engine never refuses before it deletes, and reports
\* the driver as in use after a failed call
unloadDriverFrom(i, mods, tried, moduleErrs) ==
    IF i > Len(modules)
    THEN [mods |-> mods, operands |-> tried, refused |-> FALSE,
          status |-> IF moduleErrs THEN "inUse" ELSE "ok"]
    ELSE LET m == modules[i]
         IN  IF m \notin DOMAIN mods
             THEN unloadDriverFrom(i + 1, mods, tried, moduleErrs)
             ELSE IF CanDelete(mods, m)
             THEN unloadDriverFrom(i + 1, AfterDelete(mods, m), Append(tried, m), moduleErrs)
             ELSE unloadDriverFrom(i + 1, mods, Append(tried, m), TRUE)

\* _unload_driver: the name appended to rmmod_args for a module
rmmodName(m) ==
    CASE m = "nvidia_modeset" -> "nvidia-modeset"
      [] m = "nvidia_uvm" -> "nvidia-uvm"
      [] m = "nvidia_peermem" -> "nvidia-peermem"
      [] m = "nvidia_fs" -> "nvidia-fs"
      [] OTHER -> m

RECURSIVE rmmodArgsFrom(_, _)
\* _unload_driver: rmmod_args after the scan of the refcnt files
rmmodArgsFrom(i, mods) ==
    IF i > Len(modules) THEN ""
    ELSE (IF modules[i] \in DOMAIN mods THEN " " \o rmmodName(modules[i]) ELSE "")
         \o rmmodArgsFrom(i + 1, mods)

RECURSIVE Underscored(_)
\* rmmod takes a dash in a module name for an underscore
Underscored(str) ==
    IF str = "" THEN ""
    ELSE (IF SubSeq(str, 1, 1) = "-" THEN "_" ELSE SubSeq(str, 1, 1))
         \o Underscored(SubSeq(str, 2, Len(str)))

RECURSIVE rmmodFrom(_, _, _, _)
\* rmmod with these words as arguments: each word that names a loaded
\* module with reference count zero is removed, any other word is an error
rmmodFrom(i, words, mods, failed) ==
    IF i > Len(words)
    THEN [mods |-> mods, operands |-> words, refused |-> FALSE,
          status |-> IF failed THEN "rmmodFailed" ELSE "ok"]
    ELSE LET m == Underscored(words[i])
         IN  IF CanDelete(mods, m)
             THEN rmmodFrom(i + 1, words, AfterDelete(mods, m), failed)
             ELSE rmmodFrom(i + 1, words, mods, TRUE)

\* _unload_driver: the refusal test and, if it passes, rmmod "${rmmod_args}",
\* which hands rmmod the whole list as one word
_unload_driver(mods) ==
    LET rmmod_args == rmmodArgsFrom(1, mods)
        nvidia_deps == Cardinality(DOMAIN mods \cap DependentModules)
        nvidia_refs == IF baseModule \in DOMAIN mods THEN mods[baseModule] ELSE 0
        vgpuCase == /\ nvidia_refs > nvidia_deps
                    /\ nvidia_refs = 2
                    /\ Contains(" " \o rmmod_args \o " ", " nvidia_vgpu_vfio ")
        inUse == \/ nvidia_refs > nvidia_deps
                 \/ \E m \in DOMAIN mods \cap DependentModules : mods[m] > 0
    IN  IF ~vgpuCase /\ inUse
        THEN [mods |-> mods, operands |-> <<>>, refused |-> TRUE, status |-> "inUse"]
        ELSE IF rmmod_args = ""
        THEN [mods |-> mods, operands |-> <<>>, refused |-> FALSE, status |-> "ok"]
        ELSE rmmodFrom(1, <<rmmod_args>>, mods, FALSE)

(***************************************************************************)
(* PCI modalias matching (internal/nvpci)                                  *)
(***************************************************************************)
\* the fields of modAlias, in the order of the struct
modAliasFields ==
    <<"vendor", "device", "subvendor", "subdevice", "baseClass", "subClass",
      "programmingInterface">>

\* the values a field of a device's modalias takes
FieldValues == {"000010DE", "00002330"}

\* the modaliases of the devices that are compared
DeviceModAliases ==
    {[f \in 1..Len(modAliasFields) |-> "000010DE"],
     [f \in 1..Len(modAliasFields) |-> IF f % 2 = 0 THEN "000010DE" ELSE "00002330"]}

\* the patterns of modules.alias: a value or the wildcard in every field
PatternModAliases == [1..Len(modAliasFields) -> FieldValues \cup {"*"}]

\* no comparison has been made
NoMatch == [device |-> <<>>, pattern |-> <<>>, match |-> FALSE, wildcardCount |-> 0]

RECURSIVE matchModaliasFrom(_, _, _, _)
\* matchModalias: the loop over the struct fields from field i on
matchModaliasFrom(i, deviceModAlias, patternModAlias, wildcardCount) ==
    IF i > Len(modAliasFields)
    THEN [match |-> TRUE, wildcardCount |-> wildcardCount]
    ELSE IF patternModAlias[i] = "*"
    THEN matchModaliasFrom(i + 1, deviceModAlias, patternModAlias, wildcardCount + 1)
    ELSE IF deviceModAlias[i] # patternModAlias[i]
    THEN [match |-> FALSE, wildcardCount |-> wildcardCount]
    ELSE matchModaliasFrom(i + 1, deviceModAlias, patternModAlias, wildcardCount)

\* mutant: the comparison starts at the second field
matchModalias_SkipsVendor(deviceModAlias, patternModAlias) ==
    matchModaliasFrom(2, deviceModAlias, patternModAlias, 0)

\* matchModalias
matchModalias(deviceModAlias, patternModAlias) ==
    matchModaliasFrom(1, deviceModAlias, patternModAlias, 0)

(***************************************************************************)
(* Idle values of the variables a specification does not use               *)
(***************************************************************************)
EncIdle == encHist = <<>> /\ encOps = <<>>
ModIdle == sysModules = <<>> /\ unload = NoUnload
VfioIdle == bound = <<>> /\ unbindTodo = <<>> /\ vfioPos = "idle" /\ exitStatus = -1

PciIdle == lastMatch = NoMatch /\ VfioIdle

\* DeleteOrEvictPods is not running
NoDrain == [pos |-> "idle"]

DrainIdle == nodePods = {} /\ drain = NoDrain

\* sync.RWMutex, unlocked
Unlocked == [writer |-> "none", readers |-> {}]

\* the cache as NewResourceClaimCache returns it
NewRcc == [mu |-> Unlocked, synced |-> FALSE, stopCh |-> "open"]

ConcIdle == rcc = NewRcc /\ ctxDone = FALSE /\ threads = <<>>

\* findBestVFIOVariant has not run
NoBest == [aliases |-> <<>>, bestMatch |-> "", variant |-> ""]

BestIdle == lastBest = NoBest

AuxIdle == DrainIdle /\ ConcIdle /\ BestIdle
GpuIdle ==
    /\ podUIDs = {} /\ claims = {}
    /\ lastPod = NoPod /\ lastVerdict = FALSE
    /\ lastEvent = NoEvent

\* the GPUDirect RDMA step has read nothing
NoMofed == [read |-> "nothing"]

RunIdle ==
    /\ pc = "idle" /\ cfg = <<>> /\ components = <<>>
    /\ nodeLabels = <<>> /\ labels0 = <<>>
    /\ unschedulable = FALSE /\ driverLoaded = FALSE
    /\ calls = <<>> /\ writes = <<>> /\ gpuPods = NoEviction
    /\ result = "none" /\ failedStep = "none"
    /\ skipArgs = NoSkipArgs /\ forced = {} /\ interrupted = FALSE
    /\ timedOut = "" /\ mofed = NoMofed

(***************************************************************************)
(* SpecEnc: the encoder applied to a label value                           *)
(***************************************************************************)
InitEnc ==
    /\ encHist \in {<<v>> : v \in LabelValues}
    /\ encOps = <<>>
    /\ GpuIdle /\ RunIdle /\ ModIdle /\ PciIdle /\ AuxIdle

\* evictAllGPUOperatorComponents computes the value to write with maybeSetPaused
EncPause ==
    /\ Len(encOps) < MaxEncOps
    /\ encHist' = Append(encHist, maybeSetPaused(encHist[Len(encHist)]))
    /\ encOps' = Append(encOps, "pause")
    /\ UNCHANGED <<gpuVars, runVars, modVars, pciVars, auxVars>>

\* rescheduleGPUOperatorComponents computes the value to write with maybeSetTrue
EncResume ==
    /\ Len(encOps) < MaxEncOps
    /\ encHist' = Append(encHist, maybeSetTrue(encHist[Len(encHist)]))
    /\ encOps' = Append(encOps, "resume")
    /\ UNCHANGED <<gpuVars, runVars, modVars, pciVars, auxVars>>

\* the script computes the value to write with _maybe_set_true
EncResumeScript ==
    /\ Len(encOps) < MaxEncOps
    /\ encHist' = Append(encHist, _maybe_set_true(encHist[Len(encHist)]))
    /\ encOps' = Append(encOps, "_maybe_set_true")
    /\ UNCHANGED <<gpuVars, runVars, modVars, pciVars, auxVars>>

NextEnc == EncPause \/ EncResume \/ EncResumeScript

SpecEnc == InitEnc /\ [][NextEnc]_vars

\* the state in which v was paused and the paused value then resumed
PausedThenResumed == encOps = <<"pause", "resume">>

PausedTwice == encOps = <<"pause", "pause">>

\* C22: pause(pause(v)) = pause(v) for every label value v, and a value that
\* already contains the paused marker is returned unchanged by pause
C22_PauseIdempotent ==
    /\ PausedTwice => encHist[3] = encHist[2]
    /\ (Len(encOps) > 0 /\ encOps[1] = "pause" /\ Contains(encHist[1], pausedStr))
           => encHist[2] = encHist[1]

\* a custom value got the marker at the first pause and kept it unchanged at
\* the second
C22_Witness ==
    /\ PausedTwice
    /\ encHist = <<"a", "a_paused-for-driver-upgrade", "a_paused-for-driver-upgrade">>

RECURSIVE CountPaused(_)
\* the number of non-overlapping occurrences of the paused marker in s
CountPaused(s) ==
    IF Len(s) < Len(pausedStr) THEN 0
    ELSE IF HasPrefix(s, pausedStr)
         THEN 1 + CountPaused(From(s, Len(pausedStr) + 1))
         ELSE CountPaused(From(s, 2))

RECURSIVE StripOnePaused(_)
\* s without its first occurrence of the paused marker and without the
\* underscore that follows that occurrence
StripOnePaused(s) ==
    IF s = "" THEN ""
    ELSE IF HasPrefix(s, pausedStr)
         THEN LET rest == From(s, Len(pausedStr) + 1)
              IN  IF HasPrefix(rest, "_") THEN From(rest, 2) ELSE rest
         ELSE SubSeq(s, 1, 1) \o StripOnePaused(From(s, 2))

\* resume was the last operation, applied to the value before the last
Resumed == Len(encOps) > 0 /\ encOps[Len(encOps)] = "resume"
ResumeInput == encHist[Len(encHist) - 1]
ResumeOutput == encHist[Len(encHist)]

\* C23 as stated: resume of a value that carries the marker returns "true"
\* for the bare marker and otherwise the value with exactly one occurrence
\* of the marker, and the separator left over, stripped.
C23_ResumeStripsOne ==
    (Resumed /\ Contains(ResumeInput, pausedStr)) =>
        ResumeOutput = IF ResumeInput = pausedStr THEN "true"
                       ELSE Trim(StripOnePaused(ResumeInput), "_")

\* C23 amended: resume of a value that carries the marker exactly once
\* returns "true" for the bare marker and otherwise the value with that
\* occurrence and the separator left over stripped; when the value is a
\* label value followed by "_" and the marker, that label value is returned.
C23_ResumeStripsTheOne ==
    (Resumed /\ CountPaused(ResumeInput) = 1) =>
        /\ ResumeOutput = IF ResumeInput = pausedStr THEN "true"
                          ELSE Trim(StripOnePaused(ResumeInput), "_")
        /\ \A v \in LabelValues :
               (v # "" /\ ResumeInput = v \o "_" \o pausedStr) => ResumeOutput = v

\* resume of a paused custom value read from the node gave the custom value
C23_Witness ==
    /\ Resumed
    /\ encHist = <<"a_paused-for-driver-upgrade", "a">>

RECURSIVE StripAllPaused(_)
\* s without the occurrences of the paused marker and without the
\* underscore just before and the underscore just after each of them
StripAllPaused(s) ==
    IF s = "" THEN ""
    ELSE LET skip == IF HasPrefix(s, "_" \o pausedStr) THEN Len(pausedStr) + 1
                     ELSE IF HasPrefix(s, pausedStr) THEN Len(pausedStr)
                     ELSE 0
             rest == From(s, skip + 1)
         IN  IF skip = 0 THEN SubSeq(s, 1, 1) \o StripAllPaused(From(s, 2))
             ELSE IF HasPrefix(rest, "_") /\ ~HasPrefix(rest, "_" \o pausedStr)
                  THEN StripAllPaused(From(rest, 2))
                  ELSE StripAllPaused(rest)

\* the last operation was a resume by either implementation
ResumedByAny ==
    Len(encOps) > 0 /\ encOps[Len(encOps)] \in {"resume", "_maybe_set_true"}

\* C24: resume("false") = "false", resume of the bare marker is "true", and
\* resume of any other value is that value without the occurrences of the
\* marker and without the underscores next to them, every other character
\* kept.
C24_ResumeStripsOnlyMarkers ==
    ResumedByAny =>
        ResumeOutput = IF ResumeInput = "false" THEN "false"
                       ELSE IF ResumeInput = pausedStr THEN "true"
                       ELSE StripAllPaused(ResumeInput)

(***************************************************************************)
(* SpecGpu: claim events feed the cache while pods are classified          *)
(***************************************************************************)
InitGpu ==
    /\ podUIDs = {}
    /\ claims = {}
    /\ lastPod = NoPod
    /\ lastVerdict = FALSE
    /\ lastEvent = NoEvent
    /\ EncIdle /\ RunIdle /\ ModIdle /\ PciIdle /\ AuxIdle

\* the informer delivers events until the drain filter asks for a verdict;
\* the verdict is then read next to the cache it was computed with
Feeding == lastPod = NoPod

\* AddFunc: handleClaim(true)
ClaimAdded ==
    /\ Feeding
    /\ \E claim \in ClaimSamples :
        /\ \A c \in claims : c.name # claim.name
        /\ claims' = claims \cup {claim}
        /\ podUIDs' = updatePodUIDs(podUIDs, claim, TRUE)
    /\ UNCHANGED <<lastPod, lastVerdict, lastEvent, encVars, runVars, modVars, pciVars, auxVars>>

\* UpdateFunc: onClaimUpdate removes the old object's pods, then adds the new
\* object's pods
ClaimUpdated ==
    /\ Feeding
    /\ \E oldClaim \in claims, newClaim \in ClaimSamples :
        /\ newClaim.name = oldClaim.name
        /\ newClaim # oldClaim
        /\ claims' = (claims \ {oldClaim}) \cup {newClaim}
        /\ podUIDs' = updatePodUIDs(updatePodUIDs(podUIDs, oldClaim, FALSE),
                                    newClaim, TRUE)
    /\ UNCHANGED <<lastPod, lastVerdict, lastEvent, encVars, runVars, modVars, pciVars, auxVars>>

\* DeleteFunc: handleClaim(false)
ClaimDeleted ==
    /\ Feeding
    /\ \E claim \in claims :
        /\ claims' = claims \ {claim}
        /\ podUIDs' = updatePodUIDs(podUIDs, claim, FALSE)
    /\ UNCHANGED <<lastPod, lastVerdict, lastEvent, encVars, runVars, modVars, pciVars, auxVars>>

\* customDrainFilter / the counting loop of DeleteOrEvictPods classify a pod
ClassifyPod ==
    /\ lastPod = NoPod
    /\ \E pod \in PodSamples :
        /\ lastPod' = pod
        /\ lastVerdict' = gpuPodSpecFilter(pod)
    /\ UNCHANGED <<podUIDs, claims, lastEvent, encVars, runVars, modVars, pciVars, auxVars>>

NextGpu == ClaimAdded \/ ClaimUpdated \/ ClaimDeleted \/ ClassifyPod

SpecGpu == InitGpu /\ [][NextGpu]_vars

\* some container of the pod names a GPU or MIG extended resource
HasGpuResourceKey(pod) ==
    \E i \in 1..Len(pod.containers) :
        \E name \in pod.containers[i].limits \cup pod.containers[i].requests :
            \/ HasPrefix(name, "nvidia.com/gpu")
            \/ HasPrefix(name, "nvidia.com/mig-")

Classified == lastPod.uid # ""

\* C9: a pod without a GPU resource key that declares a resource claim and
\* whose UID is in the cache is classified as GPU-occupying
C9_ClaimedPodIsGpuPod ==
    (/\ Classified
     /\ ~HasGpuResourceKey(lastPod)
     /\ lastPod.resourceClaims
     /\ PodUsesNvidiaGPU(lastPod.uid))
        => lastVerdict = TRUE

\* C10: a pod with a GPU or MIG resource key is classified as GPU-occupying
\* whatever the cache holds, and a pod with no such key and no cached
\* resource claim is classified as not GPU-occupying
C10_ResourceKeyDecides ==
    Classified =>
        /\ HasGpuResourceKey(lastPod) => lastVerdict = TRUE
        /\ (~HasGpuResourceKey(lastPod) /\ ~PodUsesNvidiaGPU(lastPod.uid))
               => lastVerdict = FALSE

\* a pod whose second container requests a MIG slice is classified as a GPU
\* pod while the cache is empty and the pod declares no resource claim
C10_Witness ==
    /\ Classified
    /\ podUIDs = {}
    /\ ~lastPod.resourceClaims
    /\ Len(lastPod.containers) = 2
    /\ lastPod.containers[1] = [limits |-> {"cpu"}, requests |-> {}]
    /\ lastPod.containers[2].requests = {"cpu", "nvidia.com/mig-1g.5gb"}
    /\ lastVerdict = TRUE

(***************************************************************************)
(* Spec: one run of DriverManager.uninstallDriver                          *)
(***************************************************************************)
Init ==
    /\ pc = "start"
    /\ cfg \in [enableAutoDrain : BOOLEAN, enableGPUPodEviction : BOOLEAN,
                nodeLabelForGPUPodEviction : {"", CustomLabel}]
    /\ components = [f \in ComponentFields |-> ""]
    /\ nodeLabels \in LabelProfiles
    /\ labels0 = nodeLabels
    /\ unschedulable \in BOOLEAN
    /\ driverLoaded \in BOOLEAN
    /\ calls = <<>>
    /\ writes = <<>>
    /\ gpuPods = NoEviction
    /\ result = "none"
    /\ failedStep = "none"
    /\ skipArgs = NoSkipArgs
    /\ forced = {}
    /\ interrupted = FALSE
    /\ timedOut = "" /\ mofed = NoMofed
    /\ EncIdle /\ GpuIdle /\ ModIdle /\ PciIdle /\ AuxIdle

\* uninstallDriver returns
Return(res, step) ==
    /\ pc' = "done"
    /\ result' = res
    /\ failedStep' = step

\* the run goes on with the next step
Goto(next) ==
    /\ pc' = next
    /\ UNCHANGED <<result, failedStep>>

\* cleanupOnFailure, run after the calls, writes and labels of the failed step
cleanupOnFailure(callsNow, writesNow, labelsNow, uncordonOK, rescheduleOK) ==
    /\ calls' = callsNow
                \o (IF ShouldUncordon THEN <<Call("UncordonNode", uncordonOK)>> ELSE <<>>)
                \o <<Call("UpdateNodeLabels", rescheduleOK)>>
    /\ unschedulable' = IF ShouldUncordon /\ uncordonOK THEN FALSE ELSE unschedulable
    /\ writes' = Append(writesNow, [kind |-> "resume", labels |-> ResumedLabels,
                                    ok |-> rescheduleOK])
    /\ nodeLabels' = IF rescheduleOK THEN Relabel(labelsNow, ResumedLabels) ELSE labelsNow

\* a step fails after an external call: cleanupOnFailure, then the error
FailWithCleanup(step, op) ==
    \E uncordonOK \in BOOLEAN, rescheduleOK \in BOOLEAN :
        /\ cleanupOnFailure(Append(calls, Call(op, FALSE)), writes, nodeLabels,
                            uncordonOK, rescheduleOK)
        /\ Return("err", step)

\* mutant: the run goes on after the node was labelled
HostDriverCheck_Proceeds ==
    /\ pc = "start"
    /\ \E isHostDriver \in BOOLEAN, labelOK \in BOOLEAN :
        IF isHostDriver
        THEN LET m == [k \in {nvidiaDriverDeployLabel} |-> "pre-installed"]
             IN  /\ calls' = Append(calls, Call("UpdateNodeLabels", labelOK))
                 /\ writes' = Append(writes, [kind |-> "driver", labels |-> m, ok |-> labelOK])
                 /\ nodeLabels' = IF labelOK THEN Relabel(nodeLabels, m) ELSE nodeLabels
                 /\ Goto("skipProbe")
        ELSE /\ Goto("skipProbe")
             /\ UNCHANGED <<calls, writes, nodeLabels>>
    /\ UNCHANGED <<cfg, components, labels0, unschedulable, driverLoaded, gpuPods,
                   skipArgs, envVars, encVars, gpuVars, modVars, pciVars, auxVars>>

\* uninstallDriver: the host driver probe and disableContainerizedDriver
HostDriverCheck ==
    /\ pc = "start"
    /\ \E isHostDriver \in BOOLEAN, labelOK \in BOOLEAN :
        IF isHostDriver
        THEN LET m == [k \in {nvidiaDriverDeployLabel} |-> "pre-installed"]
             IN  /\ calls' = Append(calls, Call("UpdateNodeLabels", labelOK))
                 /\ writes' = Append(writes, [kind |-> "driver", labels |-> m, ok |-> labelOK])
                 /\ nodeLabels' = IF labelOK THEN Relabel(nodeLabels, m) ELSE nodeLabels
                 /\ Return("err", IF labelOK THEN "isHostDriver"
                                  ELSE "disableContainerizedDriver")
        ELSE /\ Goto("skipProbe")
             /\ UNCHANGED <<calls, writes, nodeLabels>>
    /\ UNCHANGED <<cfg, components, labels0, unschedulable, driverLoaded, gpuPods,
                   skipArgs, envVars, encVars, gpuVars, modVars, pciVars, auxVars>>

\* the run is about to call shouldSkipUninstall: the force-reinstall flag,
\* the desired version and the installed version it will meet
SkipProbe ==
    /\ pc = "skipProbe"
    /\ skipArgs' \in SkipArgSamples
    /\ Goto("skipCheck")
    /\ UNCHANGED <<cfg, components, nodeLabels, labels0, unschedulable, driverLoaded,
                   calls, writes, gpuPods, envVars, encVars, gpuVars, modVars, pciVars, auxVars>>

\* uninstallDriver: shouldSkipUninstall; its inputs are dropped on return
SkipCheck ==
    /\ pc = "skipCheck"
    /\ IF shouldSkipUninstall(skipArgs.forceReinstall, driverLoaded,
                              skipArgs.driverVersion, skipArgs.detected)
       THEN Return("ok", "none")
       ELSE Goto("fetchLabels")
    /\ skipArgs' = NoSkipArgs
    /\ UNCHANGED <<cfg, components, nodeLabels, labels0, unschedulable, driverLoaded,
                   calls, writes, gpuPods, envVars, encVars, gpuVars, modVars, pciVars, auxVars>>

\* the labels fetchCurrentLabels reads: the component labels, then the custom
\* label when one is configured
LabelsToFetch ==
    operandLabels \o (IF cfg.nodeLabelForGPUPodEviction # ""
                      THEN <<cfg.nodeLabelForGPUPodEviction>> ELSE <<>>)

\* the field of componentState a fetched label is stored in
FieldOf(label) ==
    IF label \in ComponentLabels THEN label ELSE "customOperandNodeLabelValue"

\* fetchCurrentLabels: the first n reads succeed; a failed read ends the run
FetchCurrentLabels ==
    /\ pc = "fetchLabels"
    /\ \E n \in 0..Len(LabelsToFetch) :
        LET fetched == {LabelsToFetch[i] : i \in 1..n}
            allRead == n = Len(LabelsToFetch)
        IN  /\ components' =
                   [f \in ComponentFields |->
                       IF \E l \in fetched : FieldOf(l) = f
                       THEN GetNodeLabelValue(nodeLabels, CHOOSE l \in fetched : FieldOf(l) = f)
                       ELSE components[f]]
            /\ calls' = calls \o Repeated("GetNodeLabelValue",
                                          IF allRead THEN n ELSE n + 1, ~allRead)
            /\ IF allRead THEN Goto("fetchAnnotation")
               ELSE Return("err", "fetchCurrentLabels")
    /\ UNCHANGED <<cfg, nodeLabels, labels0, unschedulable, driverLoaded, writes,
                   gpuPods, skipArgs, envVars, encVars, gpuVars, modVars, pciVars, auxVars>>

\* mutant: the components are not paused when the auto-upgrade policy is on
FetchAutoUpgradeAnnotation_SkipsPause ==
    /\ pc = "fetchAnnotation"
    /\ \/ /\ \E value \in {"", "true", "false"} :
                /\ components' = [components EXCEPT !["autoUpgradePolicyEnabled"] = value]
                /\ Goto(IF value = "true" THEN "gpuPodEviction" ELSE "evictComponents")
          /\ calls' = Append(calls, Call("GetNodeAnnotationValue", TRUE))
       \/ /\ calls' = Append(calls, Call("GetNodeAnnotationValue", FALSE))
          /\ Return("err", "fetchAutoUpgradeAnnotation")
          /\ UNCHANGED components
    /\ UNCHANGED <<cfg, nodeLabels, labels0, unschedulable, driverLoaded, writes,
                   gpuPods, skipArgs, envVars, encVars, gpuVars, modVars, pciVars, auxVars>>

\* mutant: a failed annotation read is treated like a failed later step
FetchAutoUpgradeAnnotation_Cleanup ==
    /\ pc = "fetchAnnotation"
    /\ \/ /\ \E value \in {"", "true", "false"} :
                components' = [components EXCEPT !["autoUpgradePolicyEnabled"] = value]
          /\ calls' = Append(calls, Call("GetNodeAnnotationValue", TRUE))
          /\ Goto("evictComponents")
          /\ UNCHANGED <<nodeLabels, unschedulable, writes>>
       \/ /\ FailWithCleanup("fetchAutoUpgradeAnnotation", "GetNodeAnnotationValue")
          /\ UNCHANGED components
    /\ UNCHANGED <<cfg, labels0, driverLoaded, gpuPods, skipArgs, envVars, encVars, gpuVars, modVars, pciVars, auxVars>>

\* fetchAutoUpgradeAnnotation
FetchAutoUpgradeAnnotation ==
    /\ pc = "fetchAnnotation"
    /\ \/ /\ \E value \in {"", "true", "false"} :
                components' = [components EXCEPT !["autoUpgradePolicyEnabled"] = value]
          /\ calls' = Append(calls, Call("GetNodeAnnotationValue", TRUE))
          /\ Goto("evictComponents")
       \/ /\ calls' = Append(calls, Call("GetNodeAnnotationValue", FALSE))
          /\ Return("err", "fetchAutoUpgradeAnnotation")
          /\ UNCHANGED components
    /\ UNCHANGED <<cfg, nodeLabels, labels0, unschedulable, driverLoaded, writes,
                   gpuPods, skipArgs, envVars, encVars, gpuVars, modVars, pciVars, auxVars>>

\* evictAllGPUOperatorComponents: the pause write, then waitForPodsToTerminate;
\* the waits before selector k find the pods gone, the wait for selector k
\* polls what polls holds, and the waits after it find the pods gone
EvictAllGPUOperatorComponents ==
    /\ pc = "evictComponents"
    /\ \E writeOK \in BOOLEAN :
       \E polls \in IF writeOK THEN PollSamples ELSE {<<"gone">>} :
       \E k \in IF writeOK /\ WaitForPodTermination(polls) # "ok"
                THEN 1..Len(PodSelectors) ELSE {1} :
        LET allGone == WaitForPodTermination(polls) = "ok"
            n == IF allGone THEN Len(PodSelectors) ELSE k - 1
            write == [kind |-> "pause", labels |-> PausedLabels, ok |-> writeOK]
            labelsNow == IF writeOK THEN Relabel(nodeLabels, PausedLabels) ELSE nodeLabels
            callsNow ==
                Append(calls, Call("UpdateNodeLabels", writeOK))
                \o (IF writeOK
                    THEN Repeated("WaitForPodTermination",
                                  IF allGone THEN n ELSE n + 1, ~allGone)
                    ELSE <<>>)
        IN  /\ timedOut' = IF writeOK /\ StillPresentAtExpiry(polls)
                           THEN PodSelectors[k] ELSE ""
            /\ IF writeOK /\ allGone
               THEN /\ calls' = callsNow
                    /\ writes' = Append(writes, write)
                    /\ nodeLabels' = labelsNow
                    /\ Goto("gpuPodEviction")
                    /\ UNCHANGED unschedulable
               ELSE \E uncordonOK \in BOOLEAN, rescheduleOK \in BOOLEAN :
                    /\ cleanupOnFailure(callsNow, Append(writes, write), labelsNow,
                                        uncordonOK, rescheduleOK)
                    /\ Return("err", "evictAllGPUOperatorComponents")
    /\ UNCHANGED <<cfg, components, labels0, driverLoaded, gpuPods, skipArgs, forced,
                   interrupted, mofed, encVars, gpuVars, modVars, pciVars, auxVars>>

\* uninstallDriver: GPU pod eviction is disabled, the step is skipped
SkipGPUPodEviction ==
    /\ pc = "gpuPodEviction"
    /\ ~isGPUPodEvictionEnabled
    /\ Goto("moduleUnload")
    /\ UNCHANGED <<cfg, components, nodeLabels, labels0, unschedulable, driverLoaded,
                   calls, writes, gpuPods, skipArgs, envVars, encVars, gpuVars, modVars, pciVars, auxVars>>

\* uninstallDriver: CordonNode; its failure is returned without cleanupOnFailure
CordonNode ==
    /\ pc = "gpuPodEviction"
    /\ isGPUPodEvictionEnabled
    /\ \E ok \in BOOLEAN :
        /\ calls' = Append(calls, Call("CordonNode", ok))
        /\ unschedulable' = IF ok THEN TRUE ELSE unschedulable
        /\ IF ok THEN Goto("nvDrainNode") ELSE Return("err", "CordonNode")
    /\ UNCHANGED <<cfg, components, nodeLabels, labels0, driverLoaded, writes,
                   gpuPods, skipArgs, envVars, encVars, gpuVars, modVars, pciVars, auxVars>>

\* nvDrainNode: Client.DeleteOrEvictPods over the pods found on the node, of
\* which the drain helper refuses those in blocked
NvDrainNode ==
    /\ pc = "nvDrainNode"
    /\ \E listOK \in BOOLEAN, onNode \in SUBSET RunPodSamples,
          blocked \in SUBSET RunPodSamples, evictOK \in BOOLEAN,
          uncordonOK \in BOOLEAN, rescheduleOK \in BOOLEAN :
        LET identified == {pod \in onNode : gpuPodSpecFilter(pod)}
            numPodsToDelete == Cardinality(identified)
            numPodsCanDelete == Cardinality(identified \ blocked)
            status == DeleteOrEvictPodsStatus(listOK, numPodsToDelete,
                                              numPodsCanDelete, evictOK)
            ok == status \in {"noGpuPods", "evicted"}
            callsNow == Append(calls, Call("DeleteOrEvictPods", ok))
        IN  /\ blocked \subseteq onNode
            /\ ~listOK => onNode = {}
            /\ \E evicted \in 0..numPodsCanDelete :
                /\ status = "evicted" => evicted = numPodsCanDelete
                /\ status = "evictFailed" => evicted < numPodsCanDelete
                /\ status \notin {"evicted", "evictFailed"} => evicted = 0
                /\ gpuPods' = [toDelete |-> numPodsToDelete,
                               canDelete |-> numPodsCanDelete,
                               evicted |-> evicted, status |-> status]
            /\ IF ok
               THEN /\ calls' = callsNow
                    /\ Goto("moduleUnload")
                    /\ UNCHANGED <<nodeLabels, unschedulable, writes>>
               ELSE IF isAutoDrainEnabled
               THEN /\ calls' = callsNow
                    /\ Goto("drainAfterEviction")
                    /\ UNCHANGED <<nodeLabels, unschedulable, writes>>
               ELSE /\ cleanupOnFailure(callsNow, writes, nodeLabels,
                                        uncordonOK, rescheduleOK)
                    /\ Return("err", "nvDrainNode")
    /\ UNCHANGED <<cfg, components, labels0, driverLoaded, skipArgs, envVars, encVars, gpuVars, modVars, pciVars, auxVars>>

\* Client.DrainNode, called after a failed GPU pod eviction or a failed cleanup
DrainNode ==
    /\ pc \in {"drainAfterEviction", "drainAfterCleanup"}
    /\ \/ /\ calls' = Append(calls, Call("DrainNode", TRUE))
          /\ Goto(IF pc = "drainAfterEviction" THEN "cleanupAfterEviction"
                  ELSE "cleanupAfterDrain")
          /\ UNCHANGED <<nodeLabels, unschedulable, writes>>
       \/ FailWithCleanup("DrainNode", "DrainNode")
    /\ UNCHANGED <<cfg, components, labels0, driverLoaded, gpuPods, skipArgs, envVars, encVars, gpuVars, modVars, pciVars, auxVars>>

\* uninstallDriver: the driver is not loaded, cleanupDriver is not attempted
SkipCleanupDriver ==
    /\ pc = "moduleUnload"
    /\ ~driverLoaded
    /\ Goto("unbindVfioPCI")
    /\ UNCHANGED <<cfg, components, nodeLabels, labels0, unschedulable, driverLoaded,
                   calls, writes, gpuPods, skipArgs, envVars, encVars, gpuVars, modVars, pciVars, auxVars>>

\* mutant: the module unload step does not look at whether the driver is loaded
cleanupDriver_Unguarded ==
    /\ pc \in {"cleanupAfterEviction", "moduleUnload", "cleanupAfterDrain"}
    /\ \E outcome \in CleanupOutcomes, uncordonOK \in BOOLEAN, rescheduleOK \in BOOLEAN :
        LET callsNow == Append(calls, Call("cleanupDriver", outcome = "ok"))
        IN  /\ driverLoaded' = LoadedAfterCleanup(outcome, driverLoaded)
            /\ IF outcome = "ok"
               THEN /\ calls' = callsNow
                    /\ Goto(IF pc = "cleanupAfterEviction" THEN "moduleUnload"
                            ELSE "unbindVfioPCI")
                    /\ UNCHANGED <<nodeLabels, unschedulable, writes>>
               ELSE IF pc = "moduleUnload" /\ isAutoDrainEnabled
               THEN /\ calls' = callsNow
                    /\ Goto("drainAfterCleanup")
                    /\ UNCHANGED <<nodeLabels, unschedulable, writes>>
               ELSE /\ cleanupOnFailure(callsNow, writes, nodeLabels,
                                        uncordonOK, rescheduleOK)
                    /\ Return("err", "cleanupDriver")
    /\ UNCHANGED <<cfg, components, labels0, gpuPods, skipArgs, envVars, encVars, gpuVars, modVars, pciVars, auxVars>>

\* cleanupDriver: after the drain that follows a failed GPU pod eviction, as
\* first attempt of the module unload step, or as its retry after a drain
cleanupDriver ==
    /\ pc \in {"cleanupAfterEviction", "moduleUnload", "cleanupAfterDrain"}
    /\ pc = "moduleUnload" => driverLoaded
    /\ \E outcome \in CleanupOutcomes, uncordonOK \in BOOLEAN, rescheduleOK \in BOOLEAN :
        LET callsNow == Append(calls, Call("cleanupDriver", outcome = "ok"))
        IN  /\ driverLoaded' = LoadedAfterCleanup(outcome, driverLoaded)
            /\ IF outcome = "ok"
               THEN /\ calls' = callsNow
                    /\ Goto(IF pc = "cleanupAfterEviction" THEN "moduleUnload"
                            ELSE "unbindVfioPCI")
                    /\ UNCHANGED <<nodeLabels, unschedulable, writes>>
               ELSE IF pc = "moduleUnload" /\ isAutoDrainEnabled
               THEN /\ calls' = callsNow
                    /\ Goto("drainAfterCleanup")
                    /\ UNCHANGED <<nodeLabels, unschedulable, writes>>
               ELSE /\ cleanupOnFailure(callsNow, writes, nodeLabels,
                                        uncordonOK, rescheduleOK)
                    /\ Return("err", "cleanupDriver")
    /\ UNCHANGED <<cfg, components, labels0, gpuPods, skipArgs, envVars, encVars, gpuVars, modVars, pciVars, auxVars>>

\* unbindVfioPCI
unbindVfioPCI ==
    /\ pc = "unbindVfioPCI"
    /\ \/ /\ calls' = Append(calls, Call("unbindVfioPCI", TRUE))
          /\ Goto("rdma")
          /\ UNCHANGED <<nodeLabels, unschedulable, writes>>
       \/ FailWithCleanup("unbindVfioPCI", "unbindVfioPCI")
    /\ UNCHANGED <<cfg, components, labels0, driverLoaded, gpuPods, skipArgs, envVars, encVars, gpuVars, modVars, pciVars, auxVars>>

\* isGPUDirectRDMAEnabled reads the flag and, when it is set, looks for a
\* Mellanox device (vendor 0x15b3) under /sys/bus/pci/devices
isGPUDirectRDMAEnabled ==
    /\ pc = "rdma" /\ mofed.read = "nothing"
    /\ \E gpuDirectRDMAEnabled \in BOOLEAN, mellanoxDevicesPresent \in BOOLEAN :
        mofed' = [read |-> "flags", gpuDirectRDMAEnabled |-> gpuDirectRDMAEnabled,
                  mellanoxDevicesPresent |-> mellanoxDevicesPresent]
    /\ UNCHANGED <<pc, result, failedStep>>
    /\ UNCHANGED <<cfg, components, nodeLabels, labels0, unschedulable, driverLoaded,
                   calls, writes, gpuPods, skipArgs, forced, interrupted, timedOut,
                   encVars, gpuVars, modVars, pciVars, auxVars>>

\* uninstallDriver: the MOFED wait is entered when isGPUDirectRDMAEnabled
\* answered true; the wait then reads useHostMofed and polls /proc/modules
\* or the marker file /run/mellanox/drivers/.driver-ready
RdmaCheck ==
    /\ pc = "rdma" /\ mofed.read = "flags"
    /\ IF mofed.gpuDirectRDMAEnabled /\ mofed.mellanoxDevicesPresent
       THEN /\ Goto("waitForMofedDriver")
            /\ \E useHostMofed \in BOOLEAN, mlx5_core \in BOOLEAN, driverReady \in BOOLEAN :
                mofed' = [read |-> "mofed", useHostMofed |-> useHostMofed,
                          mlx5_core |-> mlx5_core,
                          driverReady |-> driverReady]
       ELSE /\ Goto("uncordon")
            /\ mofed' = NoMofed
    /\ UNCHANGED <<cfg, components, nodeLabels, labels0, unschedulable, driverLoaded,
                   calls, writes, gpuPods, skipArgs, forced, interrupted, timedOut,
                   encVars, gpuVars, modVars, pciVars, auxVars>>

\* the MOFED container, or the host, finishes installing while the run
\* waits: mlx5_core appears in /proc/modules, the marker file is written
MofedInstalls ==
    /\ pc = "waitForMofedDriver"
    /\ \/ ~mofed.mlx5_core /\ mofed' = [mofed EXCEPT !.mlx5_core = TRUE]
       \/ ~mofed.driverReady /\ mofed' = [mofed EXCEPT !.driverReady = TRUE]
    /\ UNCHANGED <<pc, result, failedStep>>
    /\ UNCHANGED <<cfg, components, nodeLabels, labels0, unschedulable, driverLoaded,
                   calls, writes, gpuPods, skipArgs, forced, interrupted, timedOut,
                   encVars, gpuVars, modVars, pciVars, auxVars>>

\* mutant: MOFED is never seen as loaded
isMofedLoaded_Never(m) == FALSE

\* mutant: the marker file is looked at whatever useHostMofed says
isMofedLoaded_MarkerOnly(m) == m.driverReady

\* isMofedLoaded, the closure waitForMofedDriver polls
isMofedLoaded(m) == IF m.useHostMofed THEN m.mlx5_core ELSE m.driverReady

\* waitForMofedDriver returns nil once isMofedLoaded() is true; while it is
\* false the loop sleeps five seconds and polls again, forever if need be
waitForMofedDriver ==
    /\ pc = "waitForMofedDriver"
    /\ isMofedLoaded(mofed)
    /\ calls' = Append(calls, Call("waitForMofedDriver", TRUE))
    /\ Goto("uncordon")
    /\ mofed' = NoMofed
    /\ UNCHANGED <<cfg, components, nodeLabels, labels0, unschedulable, driverLoaded,
                   writes, gpuPods, skipArgs, forced, interrupted, timedOut,
                   encVars, gpuVars, modVars, pciVars, auxVars>>

\* mutant: a failed uncordon on the success path is returned as an error
UncordonNode_Fatal ==
    /\ pc = "uncordon"
    /\ IF ShouldUncordon
       THEN \E ok \in BOOLEAN :
               /\ calls' = Append(calls, Call("UncordonNode", ok))
               /\ unschedulable' = IF ok THEN FALSE ELSE unschedulable
               /\ IF ok THEN Goto("reschedule") ELSE Return("err", "UncordonNode")
       ELSE /\ UNCHANGED <<calls, unschedulable>>
            /\ Goto("reschedule")
    /\ UNCHANGED <<cfg, components, nodeLabels, labels0, driverLoaded, writes,
                   gpuPods, skipArgs, envVars, encVars, gpuVars, modVars, pciVars, auxVars>>

\* uninstallDriver: UncordonNode on the success path; a failure is a warning
UncordonNode ==
    /\ pc = "uncordon"
    /\ IF ShouldUncordon
       THEN \E ok \in BOOLEAN :
               /\ calls' = Append(calls, Call("UncordonNode", ok))
               /\ unschedulable' = IF ok THEN FALSE ELSE unschedulable
       ELSE UNCHANGED <<calls, unschedulable>>
    /\ Goto("reschedule")
    /\ UNCHANGED <<cfg, components, nodeLabels, labels0, driverLoaded, writes,
                   gpuPods, skipArgs, envVars, encVars, gpuVars, modVars, pciVars, auxVars>>

\* rescheduleGPUOperatorComponents on the success path; a failure is a warning
rescheduleGPUOperatorComponents ==
    /\ pc = "reschedule"
    /\ \E ok \in BOOLEAN :
        /\ calls' = Append(calls, Call("UpdateNodeLabels", ok))
        /\ writes' = Append(writes, [kind |-> "resume", labels |-> ResumedLabels, ok |-> ok])
        /\ nodeLabels' = IF ok THEN Relabel(nodeLabels, ResumedLabels) ELSE nodeLabels
    /\ Goto("nouveau")
    /\ UNCHANGED <<cfg, components, labels0, unschedulable, driverLoaded, gpuPods,
                   skipArgs, envVars, encVars, gpuVars, modVars, pciVars, auxVars>>

\* uninstallDriver: unloadNouveau if nouveau is loaded, then success
UnloadNouveau ==
    /\ pc = "nouveau"
    /\ \E isNouveauLoaded \in BOOLEAN, ok \in BOOLEAN :
        IF isNouveauLoaded
        THEN /\ calls' = Append(calls, Call("unloadNouveau", ok))
             /\ IF ok THEN Return("ok", "none") ELSE Return("err", "unloadNouveau")
        ELSE /\ Return("ok", "none")
             /\ UNCHANGED calls
    /\ UNCHANGED <<cfg, components, nodeLabels, labels0, unschedulable, driverLoaded,
                   writes, gpuPods, skipArgs, envVars, encVars, gpuVars, modVars, pciVars, auxVars>>

Next ==
    \/ HostDriverCheck
    \/ SkipProbe
    \/ SkipCheck
    \/ FetchCurrentLabels
    \/ FetchAutoUpgradeAnnotation
    \/ EvictAllGPUOperatorComponents
    \/ SkipGPUPodEviction
    \/ CordonNode
    \/ NvDrainNode
    \/ DrainNode
    \/ SkipCleanupDriver
    \/ cleanupDriver
    \/ unbindVfioPCI
    \/ isGPUDirectRDMAEnabled
    \/ RdmaCheck
    \/ MofedInstalls
    \/ waitForMofedDriver
    \/ UncordonNode
    \/ rescheduleGPUOperatorComponents
    \/ UnloadNouveau

Spec == Init /\ [][Next]_vars

(***************************************************************************)
(* Properties of a run of uninstallDriver                                  *)
(***************************************************************************)
\* the run has called op
Called(op) == \E i \in 1..Len(calls) : calls[i].op = op

\* the number of calls of op so far
CountCalls(op) == Cardinality({i \in 1..Len(calls) : calls[i].op = op})

\* a call of op has failed
Failed(op) == \E i \in 1..Len(calls) : calls[i] = Call(op, FALSE)

\* the value of the annotation nvidia.com/gpu-driver-upgrade-enabled as fetched
Annotation == components["autoUpgradePolicyEnabled"]

\* the value fetchCurrentLabels reads for a label key of the node
FetchedValue(k) == GetNodeLabelValue(labels0, k)

\* the pause and resume writes of the run
OperandWrites == {i \in 1..Len(writes) : writes[i].kind \in {"pause", "resume"}}

\* C2: pause("false") = "false" and pause("") = ""; and in every run, each
\* pause or resume write carries, for every label whose fetched value was
\* "false" or empty, that same value.
C2_OverridesRespected ==
    /\ maybeSetPaused("false") = "false"
    /\ maybeSetPaused("") = ""
    /\ \A i \in OperandWrites : \A k \in DOMAIN writes[i].labels :
           FetchedValue(k) \in {"false", ""} => writes[i].labels[k] = FetchedValue(k)

\* a finished run that wrote, in a pause write and in a resume write, a label
\* fetched as "false" and a label fetched as empty
C2_Witness ==
    /\ pc = "done"
    /\ \E i, j \in OperandWrites :
        /\ writes[i].kind = "pause" /\ writes[j].kind = "resume"
        /\ \E k1, k2 \in DOMAIN writes[i].labels \cap DOMAIN writes[j].labels :
               FetchedValue(k1) = "false" /\ FetchedValue(k2) = ""

\* the fatal steps that follow the pause write
PostPauseFatalSteps ==
    {"evictAllGPUOperatorComponents", "CordonNode", "nvDrainNode", "DrainNode",
     "cleanupDriver", "unbindVfioPCI"}

\* the last actions of the run were those of cleanupOnFailure
RolledBack ==
    /\ Len(writes) > 0 /\ writes[Len(writes)].kind = "resume"
    /\ Len(calls) > 0 /\ calls[Len(calls)].op = "UpdateNodeLabels"
    /\ ShouldUncordon => Len(calls) > 1 /\ calls[Len(calls) - 1].op = "UncordonNode"

\* C3: a run that returns an error from a fatal step after the pause write
\* has run the rollback (uncordon when applicable, then the resume write)
\* before returning.
C3_RollbackBeforeError ==
    (pc = "done" /\ result = "err" /\ failedStep \in PostPauseFatalSteps) => RolledBack

\* C4 as stated: every UncordonNode call of a run comes after a CordonNode
\* call of the same run.
C4_UncordonOnlyAfterCordon ==
    \A i \in 1..Len(calls) :
        calls[i].op = "UncordonNode" => \E j \in 1..(i - 1) : calls[j].op = "CordonNode"

\* the run is past the uncordon of the success path
PastUncordon ==
    \/ pc \in {"reschedule", "nouveau"}
    \/ pc = "done" /\ failedStep \in {"none", "unloadNouveau"} /\ Called("unbindVfioPCI")

\* C4 amended: UncordonNode is called only in runs in which GPU pod eviction
\* or auto-drain is enabled (flag set, annotation not "true"); when it is
\* called on the success path of a run with GPU pod eviction enabled,
\* CordonNode was called before it.
C4_UncordonOnlyWhenEnabled ==
    /\ Called("UncordonNode") =>
           Annotation # "true" /\ (cfg.enableGPUPodEviction \/ cfg.enableAutoDrain)
    /\ (PastUncordon /\ Called("UncordonNode") /\ cfg.enableGPUPodEviction) =>
           \E i, j \in 1..Len(calls) :
               i < j /\ calls[i].op = "CordonNode" /\ calls[j].op = "UncordonNode"

\* a successful run with auto-drain only: the node is uncordoned although it
\* was never cordoned
C4_Witness ==
    /\ pc = "done" /\ result = "ok"
    /\ cfg.enableAutoDrain /\ ~cfg.enableGPUPodEviction
    /\ Called("UncordonNode") /\ ~Called("CordonNode")

\* C5: when the annotation is "true", the run calls neither CordonNode nor
\* DeleteOrEvictPods nor DrainNode, whatever the two flags are.
C5_PolicyBypassesEviction ==
    Annotation = "true" =>
        \A i \in 1..Len(calls) :
            calls[i].op \notin {"CordonNode", "DeleteOrEvictPods", "DrainNode"}

\* a successful run with the annotation "true", both flags set and the
\* driver cleaned up
C5_Witness ==
    /\ pc = "done" /\ result = "ok"
    /\ Annotation = "true"
    /\ cfg.enableAutoDrain /\ cfg.enableGPUPodEviction
    /\ Called("cleanupDriver")

\* component eviction succeeded, DeleteOrEvictPods deleted every GPU pod it
\* identified, and no cleanupDriver attempt failed
C6_Scenario ==
    /\ Len(writes) > 0 /\ writes[1].kind = "pause" /\ writes[1].ok
    /\ failedStep # "evictAllGPUOperatorComponents"
    /\ gpuPods.status \in {"evicted", "noGpuPods"}
    /\ ~Failed("cleanupDriver")

\* the label has the value, or the absence, it had before the run
Restored(k) ==
    /\ k \in DOMAIN nodeLabels <=> k \in DOMAIN labels0
    /\ k \in DOMAIN labels0 => nodeLabels[k] = labels0[k]

\* C6 as stated: such a run returns success, never calls DrainNode, and
\* leaves every component label as it was before the run.
C6_HappyPathRestoresAll ==
    (pc = "done" /\ C6_Scenario) =>
        /\ result = "ok"
        /\ ~Called("DrainNode")
        /\ \A k \in ComponentLabels : Restored(k)

\* C6 amended: such a run never calls DrainNode; if moreover the vfio-pci
\* unbind succeeds and no nouveau unload fails it returns success; and if the
\* resume write succeeds, every component label that was present before the
\* run with a value free of the paused marker has that value at the end.
C6_HappyPathRestores ==
    (pc = "done" /\ C6_Scenario) =>
        /\ ~Called("DrainNode")
        /\ (Called("unbindVfioPCI") /\ ~Failed("unbindVfioPCI") /\ ~Failed("unloadNouveau"))
               => result = "ok"
        /\ writes[Len(writes)] = [kind |-> "resume", labels |-> ResumedLabels, ok |-> TRUE]
               => \A k \in ComponentLabels \cap DOMAIN labels0 :
                      ~Contains(labels0[k], pausedStr) => nodeLabels[k] = labels0[k]

\* a successful run that evicted 2 of 2 GPU pods, cleaned the driver up at
\* the first attempt and restored a label whose value is neither "true" nor
\* an override
C6_Witness ==
    /\ pc = "done" /\ result = "ok" /\ C6_Scenario
    /\ gpuPods = [toDelete |-> 2, canDelete |-> 2, evicted |-> 2, status |-> "evicted"]
    /\ calls[Len(calls)] = Call("unloadNouveau", TRUE)
    /\ CountCalls("cleanupDriver") = 1
    /\ writes[Len(writes)].kind = "resume" /\ writes[Len(writes)].ok
    /\ \E k \in ComponentLabels \cap DOMAIN labels0 :
           labels0[k] = "a" /\ nodeLabels[k] = "a"

\* DeleteOrEvictPods could not delete every GPU pod it identified, and
\* auto-drain is enabled
C7_Case ==
    /\ gpuPods.status = "mismatch"
    /\ cfg.enableAutoDrain
    /\ Annotation # "true"

\* the run is past the module unload step
Proceeded ==
    \/ pc \in {"unbindVfioPCI", "rdma", "waitForMofedDriver", "uncordon", "reschedule",
               "nouveau"}
    \/ pc = "done" /\ failedStep \in {"none", "unbindVfioPCI", "unloadNouveau"}

\* C7: after such a failed GPU pod eviction the next call of the run is
\* DrainNode, and a run that proceeds to the later steps has called DrainNode
\* once and then cleanupDriver exactly once.
C7_DrainThenOneCleanup ==
    C7_Case =>
        LET e == CHOOSE i \in 1..Len(calls) : calls[i].op = "DeleteOrEvictPods"
        IN  /\ calls[e] = Call("DeleteOrEvictPods", FALSE)
            /\ pc # "drainAfterEviction" => Len(calls) > e /\ calls[e + 1].op = "DrainNode"
            /\ Proceeded =>
                   /\ SubSeq(calls, e + 1, e + 2)
                          = <<Call("DrainNode", TRUE), Call("cleanupDriver", TRUE)>>
                   /\ CountCalls("DrainNode") = 1
                   /\ CountCalls("cleanupDriver") = 1

\* a successful run in which 1 of 2 GPU pods could be deleted
C7_Witness ==
    /\ pc = "done" /\ result = "ok" /\ C7_Case
    /\ gpuPods.toDelete = 2 /\ gpuPods.canDelete = 1
    /\ CountCalls("cleanupDriver") = 1

\* C8: a run that fails to read a label or the annotation returns an error
\* and has mutated nothing: no label write, no cordon or uncordon, no pod
\* eviction or drain, no driver cleanup, no device unbind.
C8_ReadFailureMutatesNothing ==
    (pc = "done" /\ failedStep \in {"fetchCurrentLabels", "fetchAutoUpgradeAnnotation"}) =>
        /\ result = "err"
        /\ writes = <<>>
        /\ nodeLabels = labels0
        /\ \A i \in 1..Len(calls) :
               calls[i].op \in {"GetNodeLabelValue", "GetNodeAnnotationValue"}

\* a run with both flags set and a custom label whose annotation read fails
\* after every label was read
C8_Witness ==
    /\ pc = "done" /\ failedStep = "fetchAutoUpgradeAnnotation"
    /\ cfg.enableAutoDrain /\ cfg.enableGPUPodEviction
    /\ cfg.nodeLabelForGPUPodEviction = CustomLabel
    /\ CountCalls("GetNodeLabelValue") = Len(operandLabels) + 1

\* the host-driver probe found a pre-installed driver: the first thing the
\* run did to the node is the driver label write
HostDriverFound == Len(writes) > 0 /\ writes[1].kind = "driver"

\* C17: once the host-driver probe has found a pre-installed driver the run is
\* over with an error; its single API call is the write of
\* nvidia.com/gpu.deploy.driver=pre-installed, the node carries that label and
\* is otherwise as it was, no component label was fetched, and no cordon,
\* eviction, drain, module unload or device unbind was called
C17_HostDriverOnlyLabels ==
    HostDriverFound =>
        /\ pc = "done" /\ result = "err"
        /\ failedStep \in {"isHostDriver", "disableContainerizedDriver"}
        /\ calls = <<Call("UpdateNodeLabels", writes[1].ok)>>
        /\ Len(writes) = 1
        /\ writes[1].labels = [k \in {nvidiaDriverDeployLabel} |-> "pre-installed"]
        /\ nodeLabels = IF writes[1].ok
                        THEN Relabel(labels0, writes[1].labels)
                        ELSE labels0
        /\ \A f \in ComponentFields : components[f] = ""
        /\ gpuPods = NoEviction

\* a run that found the host driver and labelled the node pre-installed
C17_Witness ==
    /\ HostDriverFound /\ writes[1].ok
    /\ pc = "done" /\ failedStep = "isHostDriver"
    /\ nodeLabels[nvidiaDriverDeployLabel] = "pre-installed"

\* the five conditions under which shouldSkipUninstall answers yes
SkipConditions ==
    /\ ~skipArgs.forceReinstall
    /\ driverLoaded
    /\ skipArgs.driverVersion # ""
    /\ skipArgs.detected # ""
    /\ skipArgs.detected = skipArgs.driverVersion

\* C18: the step that evaluates shouldSkipUninstall ends the run with success
\* and without touching the node exactly when force-reinstall is unset, the
\* driver is loaded, a desired version is configured, detection succeeded and
\* the detected version is the desired one; otherwise the run moves on to the
\* label fetch
C18_SkipIffVersionMatches ==
    [][pc = "skipCheck" =>
         IF SkipConditions
         THEN /\ pc' = "done" /\ result' = "ok"
              /\ UNCHANGED <<nodeLabels, unschedulable, driverLoaded, calls,
                             writes, components, gpuPods>>
         ELSE pc' = "fetchLabels" /\ result' = "none"]_vars

\* a run that was skipped: it succeeded and made no call at all
C18_Witness ==
    /\ pc = "done" /\ result = "ok" /\ failedStep = "none"
    /\ calls = <<>> /\ writes = <<>>
    /\ driverLoaded /\ nodeLabels = labels0

\* the steps whose error uninstallDriver returns when it fails at p
StepsAt(p) ==
    IF p = "start" THEN {"isHostDriver", "disableContainerizedDriver"}
    ELSE IF p = "fetchLabels" THEN {"fetchCurrentLabels"}
    ELSE IF p = "fetchAnnotation" THEN {"fetchAutoUpgradeAnnotation"}
    ELSE IF p = "evictComponents" THEN {"evictAllGPUOperatorComponents"}
    ELSE IF p = "gpuPodEviction" THEN {"CordonNode"}
    ELSE IF p = "nvDrainNode" THEN {"nvDrainNode"}
    ELSE IF p \in {"drainAfterEviction", "drainAfterCleanup"} THEN {"DrainNode"}
    ELSE IF p \in {"cleanupAfterEviction", "moduleUnload", "cleanupAfterDrain"}
         THEN {"cleanupDriver"}
    ELSE IF p = "unbindVfioPCI" THEN {"unbindVfioPCI"}
    ELSE IF p = "nouveau" THEN {"unloadNouveau"}
    ELSE {}

\* C21: the uncordon and the resume write of the success path always lead on
\* to the next step, whether they fail or not, and the error a run returns is
\* the error of the step it was at, never that of UncordonNode or of the
\* resume write issued by the rollback.
C21_RollbackFailuresNotEscalated ==
    [][/\ pc = "uncordon" => (pc' = "reschedule" /\ result' = "none")
       /\ pc = "reschedule" => (pc' = "nouveau" /\ result' = "none")
       /\ (pc # "done" /\ pc' = "done" /\ result' = "err")
              => failedStep' \in StepsAt(pc)
       /\ (pc # "done" /\ pc' = "done" /\ result' = "ok")
              => pc \in {"skipCheck", "nouveau"}]_vars

\* a run that returned success although both its uncordon and its resume
\* write failed
C21_Witness ==
    /\ pc = "done" /\ result = "ok"
    /\ Failed("UncordonNode")
    /\ Len(writes) > 0
    /\ writes[Len(writes)].kind = "resume" /\ ~writes[Len(writes)].ok

\* fetchCurrentLabels has returned without error
PassedLabelFetch ==
    /\ pc # "fetchLabels"
    /\ Called("GetNodeLabelValue") /\ ~Failed("GetNodeLabelValue")

\* the run has issued the pause write
PauseAttempted == \E i \in 1..Len(writes) : writes[i].kind = "pause"

\* the calls of the steps that follow the eviction of the components
LaterOps == {"CordonNode", "DeleteOrEvictPods", "DrainNode", "cleanupDriver", "unbindVfioPCI"}

\* the position of the call that carried the pause write, 0 if there is none
PauseCall ==
    IF \E i \in 1..Len(calls) : calls[i].op = "UpdateNodeLabels"
    THEN CHOOSE i \in 1..Len(calls) :
             /\ calls[i].op = "UpdateNodeLabels"
             /\ \A j \in 1..(i - 1) : calls[j].op # "UpdateNodeLabels"
    ELSE 0

\* the place of a call in the order cordon, GPU pod eviction, module cleanup,
\* vfio unbind, MOFED wait, uncordon, label resume, nouveau unload; 0 for the
\* calls made before these steps and for DrainNode
StepRank(i, pauseCall) ==
    LET op == calls[i].op
    IN  IF op = "CordonNode" THEN 1
        ELSE IF op = "DeleteOrEvictPods" THEN 2
        ELSE IF op = "cleanupDriver" THEN 3
        ELSE IF op = "unbindVfioPCI" THEN 4
        ELSE IF op = "waitForMofedDriver" THEN 5
        ELSE IF op = "UncordonNode" THEN 6
        ELSE IF op = "UpdateNodeLabels" /\ i # pauseCall THEN 7
        ELSE IF op = "unloadNouveau" THEN 8
        ELSE 0

\* the waits of waitForPodsToTerminate come right after the pause write, are
\* as many as there are selectors, and all succeeded
WaitsDoneAfter(pauseCall) ==
    /\ pauseCall > 0 /\ calls[pauseCall].ok
    /\ Len(calls) >= pauseCall + Len(PodSelectors)
    /\ \A i \in (pauseCall + 1)..(pauseCall + Len(PodSelectors)) :
           calls[i] = Call("WaitForPodTermination", TRUE)

WaitsDone == WaitsDoneAfter(PauseCall)

\* later steps are called only after the pause write and the waits succeeded,
\* and the steps are called in their order
PauseFirstThenInOrder ==
    LET pauseCall == PauseCall
        later == {j \in 1..Len(calls) : calls[j].op \in LaterOps}
        rank == [i \in 1..Len(calls) |-> StepRank(i, pauseCall)]
    IN  /\ later # {} =>
               /\ PauseAttempted
               /\ writes[1] = [kind |-> "pause", labels |-> PausedLabels, ok |-> TRUE]
               /\ WaitsDoneAfter(pauseCall)
               /\ \A j \in later : j > pauseCall + Len(PodSelectors)
        /\ \A j \in 2..Len(calls) :
               rank[j] > 0 => \A i \in 1..(j - 1) : rank[i] <= rank[j]

WaitTimedOut == timedOut # ""

\* the failed wait is the last wait of the run
NoWaitAfterFailure ==
    \A i \in 1..Len(calls) :
        calls[i] = Call("WaitForPodTermination", FALSE)
            => \A j \in (i + 1)..Len(calls) : calls[j].op # "WaitForPodTermination"

\* C27: when the pods of an awaited component are still on the node at the
\* end of its grace period, that wait has failed, no later selector was
\* waited for, and the run has ended with the error of the component eviction
\* after the rollback, with no cordon, no GPU pod eviction, no drain and no
\* module cleanup.
C27_WaitTimeoutIsFatal ==
    WaitTimedOut =>
        /\ pc = "done" /\ result = "err"
        /\ failedStep = "evictAllGPUOperatorComponents"
        /\ Failed("WaitForPodTermination")
        /\ NoWaitAfterFailure
        /\ CountCalls("WaitForPodTermination") <= Len(PodSelectors)
        /\ RolledBack
        /\ ~Called("CordonNode") /\ ~Called("DeleteOrEvictPods")
        /\ ~Called("DrainNode") /\ ~Called("cleanupDriver")

\* the pods of the third selector outlasted the grace period: three waits
\* were made and the rollback restored the labels
C27_Witness ==
    /\ timedOut = "nvidia-device-plugin-daemonset"
    /\ pc = "done"
    /\ CountCalls("WaitForPodTermination") = 3
    /\ writes[Len(writes)].kind = "resume" /\ writes[Len(writes)].ok

\* auto-drain is enabled: the flag is set and the annotation is not "true"
AutoDrainOn == cfg.enableAutoDrain /\ Annotation # "true"

\* C28: every DrainNode call is made with auto-drain enabled and comes right
\* after a failed DeleteOrEvictPods or a failed cleanupDriver; with auto-drain
\* disabled, a failed DeleteOrEvictPods or cleanupDriver ends the run in error
\* and DrainNode is never called.
C28_DrainOnlyAsFallback ==
    /\ \A j \in 1..Len(calls) :
           calls[j].op = "DrainNode" =>
               /\ AutoDrainOn
               /\ j > 1
               /\ calls[j - 1] \in {Call("DeleteOrEvictPods", FALSE),
                                    Call("cleanupDriver", FALSE)}
    /\ (~AutoDrainOn /\ (Failed("DeleteOrEvictPods") \/ Failed("cleanupDriver")))
           => /\ pc = "done" /\ result = "err"
              /\ failedStep \in {"nvDrainNode", "cleanupDriver"}
              /\ ~Called("DrainNode")

\* a successful run that drained the node after a failed cleanup and cleaned
\* the driver up at the second attempt
C28_Witness ==
    /\ AutoDrainOn
    /\ pc = "done" /\ result = "ok"
    /\ \E i \in 1..Len(calls) :
           /\ Len(calls) >= i + 2
           /\ SubSeq(calls, i, i + 2)
                  = <<Call("cleanupDriver", FALSE), Call("DrainNode", TRUE),
                      Call("cleanupDriver", TRUE)>>

\* the cleanupDriver calls of the module unload step: those that are not the
\* cleanup that follows the drain after a failed GPU pod eviction
ModuleStepCleanups(cs) ==
    {i \in 1..Len(cs) :
        /\ cs[i].op = "cleanupDriver"
        /\ ~(i > 2 /\ cs[i - 1].op = "DrainNode" /\ cs[i - 2].op = "DeleteOrEvictPods")}

\* what C29 says of the calls cs of a run that is at position p
AtMostOneRetry(cs, p, res) ==
    LET attempts == ModuleStepCleanups(cs)
    IN  /\ Cardinality(attempts) <= 2
        /\ \A i, j \in attempts :
               i < j => /\ AutoDrainOn
                        /\ j = i + 2
                        /\ cs[i] = Call("cleanupDriver", FALSE)
                        /\ cs[i + 1] = Call("DrainNode", TRUE)
        /\ \A i \in attempts :
               \* a failed DrainNode after the first attempt, or a failed second
               \* attempt: nothing follows but the rollback
               LET fatal == IF i + 1 \in 1..Len(cs) /\ cs[i + 1] = Call("DrainNode", FALSE)
                            THEN i + 1
                            ELSE IF i - 2 \in attempts /\ ~cs[i].ok THEN i
                            ELSE 0
               IN  fatal > 0 =>
                       /\ p = "done" /\ res = "err"
                       /\ \A n \in (fatal + 1)..Len(cs) :
                              cs[n].op \in {"UncordonNode", "UpdateNodeLabels"}
                       /\ cs[Len(cs)].op = "UpdateNodeLabels"

\* C29: the module unload step calls cleanupDriver exactly when the driver is
\* loaded; it calls it at most twice, the second time only with auto-drain
\* enabled, right after a DrainNode that succeeded right after the first
\* attempt failed; and after a failed DrainNode or a failed second attempt
\* the run only rolls back and ends in error.
C29_CleanupAtMostTwice ==
    [][/\ (pc = "moduleUnload" /\ pc' # pc) =>
              IF driverLoaded
              THEN Len(calls') > Len(calls) /\ calls'[Len(calls) + 1].op = "cleanupDriver"
              ELSE calls' = calls /\ pc' = "unbindVfioPCI"
       /\ AtMostOneRetry(calls', pc', result')]_vars

\* a run whose second cleanup attempt failed after a successful drain
C29_Witness ==
    /\ pc = "done" /\ result = "err" /\ failedStep = "cleanupDriver"
    /\ Cardinality(ModuleStepCleanups(calls)) = 2
    /\ CountCalls("DrainNode") = 1
    /\ ~Called("DeleteOrEvictPods")
    /\ RolledBack

\* the run is inside the GPUDirect RDMA step
InRdmaStep == pc \in {"rdma", "waitForMofedDriver"}

\* MOFED is ready as the configuration asks: mlx5_core is loaded when the
\* host MOFED is used, else the marker file .driver-ready exists
MofedObservedReady ==
    /\ mofed.read = "mofed"
    /\ IF mofed.useHostMofed THEN mofed.mlx5_core ELSE mofed.driverReady

\* C31: with GPUDirect RDMA enabled and a Mellanox device present the run
\* enters the MOFED wait and leaves it, for the uncordon step, only in a state
\* where MOFED is ready as configured; otherwise the wait is skipped; and
\* while the run is in the RDMA step it makes no call, writes no label and
\* does not return.
C31_NoResumeBeforeMofedReady ==
    [][/\ (pc = "rdma" /\ mofed.read = "flags") =>
              IF mofed.gpuDirectRDMAEnabled /\ mofed.mellanoxDevicesPresent
              THEN pc' = "waitForMofedDriver"
              ELSE pc' = "uncordon" /\ calls' = calls
       /\ (pc = "waitForMofedDriver" /\ pc' # pc) =>
              /\ MofedObservedReady
              /\ pc' = "uncordon"
              /\ calls' = Append(calls, Call("waitForMofedDriver", TRUE))
       /\ InRdmaStep =>
              /\ pc' \in {"rdma", "waitForMofedDriver", "uncordon"}
              /\ result' = "none"
              /\ writes' = writes /\ nodeLabels' = nodeLabels
              /\ unschedulable' = unschedulable
              /\ \A i \in 1..Len(calls') : calls'[i].op = "UncordonNode" => i <= Len(calls)
       /\ (pc' \in {"reschedule", "nouveau"} \/ (pc' = "done" /\ result' = "ok" /\ Called("unbindVfioPCI")))
              => ~InRdmaStep]_vars

\* a run that went through the MOFED wait, then uncordoned the node and
\* resumed the labels
C31_Witness ==
    /\ pc = "done" /\ result = "ok"
    /\ Called("waitForMofedDriver") /\ Called("UncordonNode")
    /\ Len(writes) > 0 /\ writes[Len(writes)].kind = "resume"

\* the positions in calls of the CordonNode calls that succeeded
CordonedAt == {i \in 1..Len(calls) : calls[i] = Call("CordonNode", TRUE)}

\* C37: when a run is over, every CordonNode call of it that succeeded is
\* followed by an UncordonNode call, whether the run returned success or an
\* error.
C37_CordonedRunUncordons ==
    pc = "done" =>
        \A i \in CordonedAt :
            \E j \in (i + 1)..Len(calls) : calls[j].op = "UncordonNode"

\* a run that cordoned the node, failed to unbind the devices and
\* uncordoned the node in the rollback
C37_Witness ==
    /\ pc = "done" /\ result = "err" /\ failedStep = "unbindVfioPCI"
    /\ CordonedAt # {}
    /\ Called("UncordonNode")

\* the runs whose termination is checked start on a schedulable node that
\* has the container-workload components enabled
InitLive ==
    /\ Init
    /\ nodeLabels = [k \in ContainerWorkloadLabels |-> "true"]
    /\ ~unschedulable

\* SpecLive: those runs, where every call to a collaborator returns and MOFED
\* finishes installing while a run waits for it
SpecLive == InitLive /\ [][Next]_vars /\ WF_vars(Next)

\* C38: every run of uninstallDriver returns in the end, given that each
\* collaborator call returns and that MOFED becomes ready while the run
\* waits for it; the MOFED wait never fails, so no run ends with its error.
C38_RunTerminates ==
    /\ <>(pc = "done" /\ result \in {"ok", "err"})
    /\ [](~Failed("waitForMofedDriver") /\ failedStep # "waitForMofedDriver")

\* a run is in the poll loop of waitForMofedDriver and MOFED is not loaded
C38_Witness ==
    /\ pc = "waitForMofedDriver"
    /\ ~isMofedLoaded(mofed)

(***************************************************************************)
(* SpecRestart: the process is interrupted and a fresh one runs            *)
(***************************************************************************)
\* the run in progress has written the paused labels to the node
PauseWritten ==
    \E i \in 1..Len(writes) : writes[i].kind = "pause" /\ writes[i].ok

\* the process dies in the middle of uninstallDriver and is started again:
\* the new DriverManager has an empty componentState and starts
\* uninstallDriver from the top against the node as it was left
Restart ==
    /\ pc \notin {"start", "done"}
    /\ pc' = "start"
    /\ components' = [f \in ComponentFields |-> ""]
    /\ calls' = <<>>
    /\ writes' = <<>>
    /\ gpuPods' = NoEviction
    /\ skipArgs' = NoSkipArgs
    /\ interrupted' = (interrupted \/ PauseWritten)
    /\ timedOut' = ""
    /\ mofed' = NoMofed
    /\ UNCHANGED <<cfg, nodeLabels, labels0, unschedulable, driverLoaded, result,
                   failedStep, forced, encVars, gpuVars, modVars, pciVars, auxVars>>

NextRestart == Next \/ Restart

SpecRestart == Init /\ [][NextRestart]_vars

\* the component labels whose value before the first run was "true" or a
\* custom value free of the paused marker
Reversible ==
    {k \in ComponentLabels \cap DOMAIN labels0 :
        /\ labels0[k] \notin {"", "false"}
        /\ ~Contains(labels0[k], pausedStr)}

\* C19 as stated: when a fresh run that follows an interruption after the
\* pause write has fetched the labels from the node and returned success,
\* every component label whose original value was "true" or a marker-free
\* custom value has that value again.
C19_FreshRunRestoresAll ==
    (pc = "done" /\ result = "ok" /\ interrupted /\ Called("GetNodeLabelValue")) =>
        \A k \in Reversible : nodeLabels[k] = labels0[k]

\* C19 amended: when a fresh run that follows an interruption after the pause
\* write is over and the last thing it wrote is a resume write that
\* succeeded, every component label whose original value was "true" or a
\* marker-free custom value has that value again.
C19_FreshRunResumeRestores ==
    (/\ pc = "done" /\ interrupted
     /\ Len(writes) > 0
     /\ writes[Len(writes)].kind = "resume" /\ writes[Len(writes)].ok) =>
        \A k \in Reversible : nodeLabels[k] = labels0[k]

\* a fresh run that fetched a paused label and a paused custom value from the
\* node and ended with both restored
C19_Witness ==
    /\ pc = "done" /\ result = "ok" /\ interrupted
    /\ Len(writes) > 0
    /\ writes[Len(writes)].kind = "resume" /\ writes[Len(writes)].ok
    /\ \E k \in Reversible :
           /\ labels0[k] = "true" /\ components[k] = pausedStr /\ nodeLabels[k] = "true"
    /\ \E k \in Reversible :
           /\ labels0[k] = "a" /\ components[k] = "a_" \o pausedStr /\ nodeLabels[k] = "a"

(***************************************************************************)
(* SpecForced: an external actor force-disables a component during a run   *)
(***************************************************************************)
\* the component labels the external actor may force to "false"
ForcedLabels == {nvidiaDevicePluginDeployLabel, nvidiaMIGManagerDeployLabel}

\* another client of the API server sets a component label of the node to
\* "false" while uninstallDriver is between two of its own API calls; a write
\* that lands inside UpdateNodeLabels, between its Get and its Update, makes
\* the Update fail with a conflict, which is the failed write of the run's
\* own steps
ForceLabelFalse ==
    /\ pc # "done"
    /\ forced = {}
    /\ \E k \in ForcedLabels \cap DOMAIN nodeLabels :
        /\ nodeLabels[k] # "false"
        /\ nodeLabels' = [nodeLabels EXCEPT ![k] = "false"]
        /\ forced' = {k}
    /\ UNCHANGED <<pc, cfg, components, labels0, unschedulable, driverLoaded, calls,
                   writes, gpuPods, result, failedStep, skipArgs, interrupted,
                   timedOut, mofed, encVars, gpuVars, modVars, pciVars, auxVars>>

NextForced == Next \/ ForceLabelFalse

SpecForced == Init /\ [][NextForced]_vars

\* C20: a component label that an external actor has set to "false" during
\* the run still has the value "false", whatever the run has written since.
C20_ForcedFalseKept == \A k \in forced : nodeLabels[k] = "false"

(***************************************************************************)
(* SpecCache: the ResourceClaimCache fed by the events of two claims       *)
(***************************************************************************)
InitCache == GpuIdle /\ EncIdle /\ RunIdle /\ ModIdle /\ PciIdle /\ AuxIdle

\* AddFunc: handleClaim(true) for a claim the informer has not seen
handleClaimAdd ==
    /\ \E claim \in CacheClaimSamples :
        /\ \A c \in claims : c.name # claim.name
        /\ claims' = claims \cup {claim}
        /\ podUIDs' = updatePodUIDs(podUIDs, claim, TRUE)
        /\ lastEvent' = [kind |-> "Added", old |-> NoClaim, new |-> claim,
                         before |-> podUIDs]
    /\ UNCHANGED <<lastPod, lastVerdict, encVars, runVars, modVars, pciVars, auxVars>>

\* mutant: the update handler only adds the pods of the new object
onClaimUpdate_AddOnly ==
    /\ \E oldClaim \in claims, newClaim \in CacheClaimSamples :
        /\ newClaim.name = oldClaim.name
        /\ claims' = (claims \ {oldClaim}) \cup {newClaim}
        /\ podUIDs' = updatePodUIDs(podUIDs, newClaim, TRUE)
        /\ lastEvent' = [kind |-> "Updated", old |-> oldClaim, new |-> newClaim,
                         before |-> podUIDs]
    /\ UNCHANGED <<lastPod, lastVerdict, encVars, runVars, modVars, pciVars, auxVars>>

\* UpdateFunc: onClaimUpdate with the object the informer held and the new
\* one; a resync delivers the same object twice
onClaimUpdate ==
    /\ \E oldClaim \in claims, newClaim \in CacheClaimSamples :
        /\ newClaim.name = oldClaim.name
        /\ claims' = (claims \ {oldClaim}) \cup {newClaim}
        /\ podUIDs' = updatePodUIDs(updatePodUIDs(podUIDs, oldClaim, FALSE),
                                    newClaim, TRUE)
        /\ lastEvent' = [kind |-> "Updated", old |-> oldClaim, new |-> newClaim,
                         before |-> podUIDs]
    /\ UNCHANGED <<lastPod, lastVerdict, encVars, runVars, modVars, pciVars, auxVars>>

\* DeleteFunc: handleClaim(false)
handleClaimDelete ==
    /\ \E claim \in claims :
        /\ claims' = claims \ {claim}
        /\ podUIDs' = updatePodUIDs(podUIDs, claim, FALSE)
        /\ lastEvent' = [kind |-> "Deleted", old |-> claim, new |-> NoClaim,
                         before |-> podUIDs]
    /\ UNCHANGED <<lastPod, lastVerdict, encVars, runVars, modVars, pciVars, auxVars>>

NextCache == handleClaimAdd \/ onClaimUpdate \/ handleClaimDelete

SpecCache == InitCache /\ [][NextCache]_vars

\* the allocation of the claim names a device of the GPU driver
HasGpuDriver(claim) ==
    claim.allocated /\ \E i \in 1..Len(claim.results) : claim.results[i] = "gpu.nvidia.com"

\* the pods the claim is reserved for
ReservedPods(claim) ==
    {claim.reservedFor[i].uid :
        i \in {j \in 1..Len(claim.reservedFor) : claim.reservedFor[j].resource = "pods"}}

\* C11: after any sequence of Added, Updated and Deleted events,
\* PodUsesNvidiaGPU(p) is true exactly if some existing claim allocated by
\* the GPU driver is reserved for pod p.
C11_CacheMatchesClaims ==
    \A p \in CacheUIDs :
        PodUsesNvidiaGPU(p) <=> \E c \in claims : HasGpuDriver(c) /\ p \in ReservedPods(c)

\* the last event was about a claim that no object of the event shows as
\* allocated by the GPU driver
ForeignEvent ==
    /\ lastEvent.kind # "none"
    /\ ~HasGpuDriver(lastEvent.old)
    /\ ~HasGpuDriver(lastEvent.new)

\* C12: an Added, Updated or Deleted event of a claim without a device of
\* the GPU driver leaves the cache's membership set as it was.
C12_ForeignClaimsLeaveCache == ForeignEvent => podUIDs = lastEvent.before

\* a claim allocated by another driver moved its reservation from pods A, B
\* to pods B, C while the cache held pod A only
C12_Witness ==
    /\ ForeignEvent
    /\ lastEvent.kind = "Updated"
    /\ lastEvent.old.allocated /\ lastEvent.new.allocated
    /\ ReservedPods(lastEvent.old) = {"uid-A", "uid-B"}
    /\ ReservedPods(lastEvent.new) = {"uid-B", "uid-C"}
    /\ podUIDs = {"uid-A"}

\* C13: after an Added event, handled with an empty cache, of a claim
\* allocated by the GPU driver, PodUsesNvidiaGPU is true for exactly the
\* pods of its reserved-for list; consumers that are not pods do not count.
C13_AddedReservesPods ==
    (lastEvent.kind = "Added" /\ lastEvent.before = {} /\ HasGpuDriver(lastEvent.new)) =>
        \A p \in CacheUIDs : PodUsesNvidiaGPU(p) <=> p \in ReservedPods(lastEvent.new)

\* the claim added is reserved for pods A and B and for a consumer C that is
\* not a pod
C13_Witness ==
    /\ lastEvent.kind = "Added" /\ lastEvent.before = {} /\ HasGpuDriver(lastEvent.new)
    /\ Len(lastEvent.new.reservedFor) = 3
    /\ PodUsesNvidiaGPU("uid-A") /\ PodUsesNvidiaGPU("uid-B") /\ ~PodUsesNvidiaGPU("uid-C")

\* C14: after an Updated event of a claim allocated by the GPU driver,
\* PodUsesNvidiaGPU is true for the pods of the new reservation and false
\* for the pods that only the old reservation named.
C14_UpdatedMovesReservation ==
    (lastEvent.kind = "Updated" /\ HasGpuDriver(lastEvent.old) /\ HasGpuDriver(lastEvent.new)) =>
        \A p \in CacheUIDs :
            /\ p \in ReservedPods(lastEvent.new) => PodUsesNvidiaGPU(p)
            /\ p \in ReservedPods(lastEvent.old) \ ReservedPods(lastEvent.new)
                   => ~PodUsesNvidiaGPU(p)

\* the reservation moved from pods A, B to pods B, C
C14_Witness ==
    /\ lastEvent.kind = "Updated"
    /\ HasGpuDriver(lastEvent.old) /\ HasGpuDriver(lastEvent.new)
    /\ lastEvent.before = {"uid-A", "uid-B"}
    /\ ReservedPods(lastEvent.old) = {"uid-A", "uid-B"}
    /\ ReservedPods(lastEvent.new) = {"uid-B", "uid-C"}
    /\ podUIDs = {"uid-B", "uid-C"}

(***************************************************************************)
(* SpecMod: one module unload by either engine                             *)
(***************************************************************************)
InitMod ==
    /\ sysModules \in ModuleStates
    /\ unload = NoUnload
    /\ EncIdle /\ GpuIdle /\ RunIdle /\ PciIdle /\ AuxIdle

\* what an engine leaves behind
Unloaded(engine, r) ==
    /\ sysModules' = r.mods
    /\ unload' = [engine |-> engine, status |-> r.status, refused |-> r.refused,
                  operands |-> r.operands,
                  removed |-> DOMAIN sysModules \ DOMAIN r.mods,
                  before |-> sysModules]

\* DriverManager.unloadDriver, called by cleanupDriver
unloadDriver ==
    /\ unload.engine = "none"
    /\ Unloaded("unloadDriver", unloadDriverFrom(1, sysModules, <<>>, FALSE))
    /\ UNCHANGED <<encVars, gpuVars, runVars, pciVars, auxVars>>

\* _unload_driver of the driver-manager script
UnloadDriverScript ==
    /\ unload.engine = "none"
    /\ Unloaded("_unload_driver", _unload_driver(sysModules))
    /\ UNCHANGED <<encVars, gpuVars, runVars, pciVars, auxVars>>

NextMod == unloadDriver \/ UnloadDriverScript

SpecMod == InitMod /\ [][NextMod]_vars

\* the reference count of the base module, 0 if it is not loaded
BaseRefs(mods) == IF "nvidia" \in DOMAIN mods THEN mods["nvidia"] ELSE 0

\* the loaded modules other than the base module
LoadedDependents(mods) == DOMAIN mods \ {"nvidia"}

\* the vGPU-VFIO exception: base count exactly 2, above the number of
\* dependents, nvidia_vgpu_vfio loaded
VgpuException(mods) ==
    /\ BaseRefs(mods) = 2
    /\ BaseRefs(mods) > Cardinality(LoadedDependents(mods))
    /\ "nvidia_vgpu_vfio" \in DOMAIN mods

\* the driver is in use: the base count exceeds the number of dependents or
\* a dependent has a nonzero count, and the exception does not apply
InUse(mods) ==
    /\ \/ BaseRefs(mods) > Cardinality(LoadedDependents(mods))
       \/ \E m \in LoadedDependents(mods) : mods[m] > 0
    /\ ~VgpuException(mods)

\* C15: when the driver is in use, the engine refuses, reports the driver as
\* in use and removes no module.
C15_RefusesWithoutRemoval ==
    (unload.engine # "none" /\ InUse(unload.before)) =>
        /\ unload.status = "inUse"
        /\ unload.removed = {}
        /\ sysModules = unload.before

\* C16: in the vGPU-VFIO exception case the engine does not refuse and goes
\* on to remove the recorded modules: each of them is handed to the removal.
C16_ExceptionProceeds ==
    (unload.engine # "none" /\ VgpuException(unload.before)) =>
        /\ ~unload.refused
        /\ \A m \in DOMAIN unload.before :
               \E i \in 1..Len(unload.operands) : Underscored(unload.operands[i]) = m


\* the engine went on to the removal: it did not refuse and handed something
\* to DeleteModule or rmmod
ProceededToRemove == unload.engine # "none" /\ ~unload.refused /\ unload.operands # <<>>

\* C36: when the unload engine goes on to remove modules, every loaded module
\* other than the base module had reference count zero when it decided.
C36_RemovesOnlyWhenDependentsIdle ==
    ProceededToRemove =>
        \A m \in LoadedDependents(unload.before) : unload.before[m] = 0

(***************************************************************************)
(* SpecAlias: a device modalias is compared with a modules.alias pattern   *)
(***************************************************************************)
InitAlias ==
    /\ lastMatch = NoMatch /\ VfioIdle /\ AuxIdle
    /\ EncIdle /\ GpuIdle /\ RunIdle /\ ModIdle

\* findBestMatch compares the device with one pattern of modules.alias
MatchModalias ==
    /\ lastMatch = NoMatch
    /\ \E deviceModAlias \in DeviceModAliases, patternModAlias \in PatternModAliases :
        LET r == matchModalias(deviceModAlias, patternModAlias)
        IN  lastMatch' = [device |-> deviceModAlias, pattern |-> patternModAlias,
                          match |-> r.match, wildcardCount |-> r.wildcardCount]
    /\ UNCHANGED <<encVars, gpuVars, runVars, modVars, vfioVars, auxVars>>

NextAlias == MatchModalias

SpecAlias == InitAlias /\ [][NextAlias]_vars

\* a comparison has been made
Compared == lastMatch # NoMatch

\* the fields of the pattern that hold the wildcard
WildcardFields == {i \in 1..Len(modAliasFields) : lastMatch.pattern[i] = "*"}

\* C25: a comparison reports a match exactly when every field of the pattern
\* is the wildcard or equals the device's field, and the count returned with
\* a match is the number of wildcard fields of the pattern
C25_MatchIffFieldsAgree ==
    Compared =>
        /\ lastMatch.match <=>
               \A i \in 1..Len(modAliasFields) :
                   \/ lastMatch.pattern[i] = "*"
                   \/ lastMatch.pattern[i] = lastMatch.device[i]
        /\ lastMatch.match => lastMatch.wildcardCount = Cardinality(WildcardFields)

\* a device matched a pattern with wildcards in some fields and its own
\* values in the others
C25_Witness ==
    /\ Compared /\ lastMatch.match
    /\ lastMatch.wildcardCount = 3
    /\ Cardinality(WildcardFields) = 3
    /\ lastMatch.pattern[1] = "00002330"

(***************************************************************************)
(* SpecUnbind: the device rebinding step of uninstallDriver, which runs    *)
(* "vfio-manage unbind --all" and looks at its exit status only.  The      *)
(* rollback of a failed step is the one of Spec (FailWithCleanup).         *)
(***************************************************************************)

\* the NVIDIA devices GetGPUs and GetNVSwitches list
Devices == <<"gpu0", "gpu1", "nvswitch0">>

NoDriver == ""

InitUnbind ==
    /\ EncIdle /\ GpuIdle /\ RunIdle /\ ModIdle /\ AuxIdle
    /\ lastMatch = NoMatch
    /\ bound \in [{Devices[i] : i \in 1..Len(Devices)} -> {NoDriver, "vfio-pci", "nvidia"}]
    /\ unbindTodo = <<>> /\ vfioPos = "idle" /\ exitStatus = -1

\* what the unbind actions leave alone
unbindRest == <<cfg, components, nodeLabels, labels0, unschedulable, driverLoaded,
                writes, gpuPods, skipArgs, envVars, encVars, gpuVars, modVars,
                lastMatch, auxVars>>

\* the run reaches the step and starts the command
StartUnbind ==
    /\ pc = "idle"
    /\ pc' = "unbindVfioPCI"
    /\ vfioPos' = "list"
    /\ UNCHANGED <<calls, result, failedStep, bound, unbindTodo, exitStatus, unbindRest>>

\* unbindAll: GetGPUs, then GetNVSwitches; either error is returned
GetDevices ==
    /\ vfioPos = "list"
    /\ \E gpusOK \in BOOLEAN, nvswitchesOK \in BOOLEAN :
        IF gpusOK /\ nvswitchesOK
        THEN /\ unbindTodo' = Devices
             /\ vfioPos' = "loop"
             /\ UNCHANGED exitStatus
        ELSE /\ vfioPos' = "exited"
             /\ exitStatus' = 1
             /\ UNCHANGED unbindTodo
    /\ UNCHANGED <<pc, calls, result, failedStep, bound, unbindRest>>

\* unbind: a device without a driver is left alone; else the write to the
\* driver's unbind file releases the device or fails
unbind(device, b, writeOK) ==
    IF b[device] = NoDriver \/ ~writeOK THEN b ELSE [b EXCEPT ![device] = NoDriver]

\* one iteration of the loop of unbindAll: a failure of UnbindFromDriver is
\* logged as a warning and the loop goes on
UnbindFromDriver ==
    /\ vfioPos = "loop" /\ unbindTodo # <<>>
    /\ \E writeOK \in BOOLEAN : bound' = unbind(Head(unbindTodo), bound, writeOK)
    /\ unbindTodo' = Tail(unbindTodo)
    /\ UNCHANGED <<pc, calls, result, failedStep, vfioPos, exitStatus, unbindRest>>

\* unbindAll returns nil after the loop
unbindAll ==
    /\ vfioPos = "loop" /\ unbindTodo = <<>>
    /\ vfioPos' = "exited"
    /\ exitStatus' = 0
    /\ UNCHANGED <<pc, calls, result, failedStep, bound, unbindTodo, unbindRest>>

\* uninstallDriver: unbindVfioPCI returns the error of cmd.Run; the run goes
\* on to the GPUDirect RDMA check or fails
UnbindStep ==
    /\ pc = "unbindVfioPCI" /\ vfioPos = "exited"
    /\ calls' = Append(calls, Call("unbindVfioPCI", exitStatus = 0))
    /\ IF exitStatus = 0
       THEN pc' = "rdma" /\ UNCHANGED <<result, failedStep>>
       ELSE pc' = "done" /\ result' = "err" /\ failedStep' = "unbindVfioPCI"
    /\ UNCHANGED <<vfioVars, unbindRest>>

NextUnbind ==
    \/ StartUnbind
    \/ GetDevices
    \/ UnbindFromDriver
    \/ unbindAll
    \/ UnbindStep

SpecUnbind == InitUnbind /\ [][NextUnbind]_vars

\* the run is past the device rebinding step
PastUnbind == pc = "rdma" /\ Called("unbindVfioPCI")

\* C30: a run that is past the device rebinding step left no NVIDIA device
\* bound to a driver: had the unbind of a single device failed, the step
\* would have failed.
C30_PastUnbindAllUnbound ==
    PastUnbind => \A i \in 1..Len(Devices) : bound[Devices[i]] = NoDriver

(***************************************************************************)
(* SpecDrain: Client.DeleteOrEvictPods against the pods of the node.  The  *)
(* drain helper lists the pods again after the function has counted the    *)
(* GPU pods, so the pods may change in between.                            *)
(***************************************************************************)

\* the pods that can be on the node; evictable tells whether the drain
\* helper's own filters (DaemonSet, mirror, local storage, unmanaged pods)
\* let the pod be deleted
NodePodSamples ==
    [uid : {"uid-A"}, resourceClaims : {FALSE}, evictable : BOOLEAN,
     containers : {<<[limits |-> {"nvidia.com/gpu"}, requests |-> {}]>>}]
    \cup
    [uid : {"uid-B"}, resourceClaims : {FALSE}, evictable : BOOLEAN,
     containers : {<<[limits |-> {"cpu"}, requests |-> {}]>>}]
    \cup
    [uid : {"uid-C"}, resourceClaims : {TRUE}, evictable : BOOLEAN,
     containers : {<<[limits |-> {}, requests |-> {}],
                     [limits |-> {}, requests |-> {"cpu", "nvidia.com/mig-1g.5gb"}]>>}]

\* at most one pod per UID
NodePodSets ==
    {ps \in SUBSET NodePodSamples : \A p, q \in ps : p.uid = q.uid => p = q}

InitDrain ==
    /\ EncIdle /\ GpuIdle /\ RunIdle /\ ModIdle /\ PciIdle /\ ConcIdle /\ BestIdle
    /\ nodePods \in NodePodSets
    /\ drain = NoDrain

\* mutant: the additional filter of the drain helper lets every pod through
customDrainFilter_Okay(pod) == TRUE

\* customDrainFilter: Skip unless gpuPodSpecFilter accepts the pod
customDrainFilter(pod) == gpuPodSpecFilter(pod)

\* drainHelper.GetPodsForDeletion: the pods every filter lets through
GetPodsForDeletion(pods) == {p \in pods : p.evictable /\ customDrainFilter(p)}

\* DeleteOrEvictPods lists the pods of the node and counts the GPU pods
ListPods ==
    /\ drain.pos = "idle"
    /\ \E listOK \in BOOLEAN :
        LET numPodsToDelete == Cardinality({p \in nodePods : gpuPodSpecFilter(p)})
        IN  drain' =
                IF ~listOK
                THEN [pos |-> "returned", numPodsToDelete |-> 0, podDeleteList |-> {},
                      evicted |-> {}, err |-> "failed to list pods"]
                ELSE IF numPodsToDelete = 0
                THEN [pos |-> "returned", numPodsToDelete |-> 0, podDeleteList |-> {},
                      evicted |-> {}, err |-> "nil"]
                ELSE [pos |-> "counted", numPodsToDelete |-> numPodsToDelete,
                      podDeleteList |-> {}, evicted |-> {}, err |-> "nil"]
    /\ UNCHANGED <<nodePods, encVars, gpuVars, runVars, modVars, pciVars, concVars, bestVars>>

\* a pod is scheduled on the node or leaves it between the two listings
PodChurn ==
    /\ drain.pos = "counted"
    /\ \E ps \in NodePodSets :
        /\ Cardinality((ps \ nodePods) \cup (nodePods \ ps)) = 1
        /\ nodePods' = ps
    /\ drain' = [drain EXCEPT !.pos = "churned"]
    /\ UNCHANGED <<encVars, gpuVars, runVars, modVars, pciVars, concVars, bestVars>>

\* DeleteOrEvictPods asks the drain helper for the deletable pods and gives
\* up when their number is not the number of GPU pods it counted
CheckPodsForDeletion ==
    /\ drain.pos \in {"counted", "churned"}
    /\ LET podDeleteList == GetPodsForDeletion(nodePods)
       IN  drain' =
               IF Cardinality(podDeleteList) # drain.numPodsToDelete
               THEN [drain EXCEPT !.pos = "returned", !.podDeleteList = podDeleteList,
                                  !.err = "failed to delete all GPU pods"]
               ELSE [drain EXCEPT !.pos = "deleting", !.podDeleteList = podDeleteList]
    /\ UNCHANGED <<nodePods, encVars, gpuVars, runVars, modVars, pciVars, concVars, bestVars>>

\* drainHelper.DeleteOrEvictPods evicts the pods of the list; when it fails
\* some of them may be gone already
EvictPods ==
    /\ drain.pos = "deleting"
    /\ \E evictOK \in BOOLEAN :
        \E evicted \in IF evictOK THEN {drain.podDeleteList}
                       ELSE (SUBSET drain.podDeleteList) \ {drain.podDeleteList} :
            /\ nodePods' = nodePods \ evicted
            /\ drain' = [drain EXCEPT !.pos = "returned", !.evicted = evicted,
                                      !.err = IF evictOK THEN "nil"
                                              ELSE "failed to delete all GPU pods"]
    /\ UNCHANGED <<encVars, gpuVars, runVars, modVars, pciVars, concVars, bestVars>>

NextDrain == ListPods \/ PodChurn \/ CheckPodsForDeletion \/ EvictPods

SpecDrain == InitDrain /\ [][NextDrain]_vars

\* C32: DeleteOrEvictPods evicts only pods for which gpuPodSpecFilter
\* answers true; it evicts a pod only when the drain helper's list has as
\* many pods as it counted GPU pods, and returns an error when the two
\* numbers differ; with no GPU pod on the node it returns nil and has
\* evicted nothing.
C32_EvictsOnlyGpuPods ==
    drain.pos \in {"deleting", "returned"} =>
        /\ \A p \in drain.evicted : gpuPodSpecFilter(p)
        /\ drain.evicted # {} =>
               Cardinality(drain.podDeleteList) = drain.numPodsToDelete
        /\ (drain.pos = "returned"
            /\ Cardinality(drain.podDeleteList) # drain.numPodsToDelete) =>
               drain.err # "nil" /\ drain.evicted = {}
        /\ (drain.pos = "returned" /\ drain.err = "nil" /\ drain.numPodsToDelete = 0) =>
               drain.evicted = {} /\ drain.podDeleteList = {}

\* two GPU pods were evicted while a pod without GPU stayed on the node
C32_Witness ==
    /\ drain.pos = "returned" /\ drain.err = "nil"
    /\ Cardinality(drain.evicted) = 2
    /\ \E p \in nodePods : ~gpuPodSpecFilter(p)

(***************************************************************************)
(* SpecConc: the ResourceClaimCache with its goroutines: the caller of     *)
(* Start, the goroutine Start leaves behind, the informer's handler        *)
(* goroutine and two goroutines that query the cache.                      *)
(* SpecConcLive: the same with the goroutines scheduled fairly.            *)
(***************************************************************************)
Readers == {"reader1", "reader2"}
Threads == {"start", "closer", "informer"} \cup Readers

\* the one claim whose events the informer delivers here
ConcClaimSamples ==
    [name : {"claim-1"}, allocated : {TRUE}, results : {<<nvidiaDRADriverName>>},
     reservedFor : {<<PodRef("uid-A")>>, <<PodRef("uid-A"), PodRef("uid-B")>>}]
    \cup
    [name : {"claim-1"}, allocated : {TRUE}, results : {<<"dra.example.com">>},
     reservedFor : {<<PodRef("uid-B")>>}]

\* the handler goroutine between two events
InformerIdle == [pc |-> "idle", kind |-> "none", old |-> NoClaim, new |-> NoClaim,
                 pass |-> "none"]

\* a querying goroutine that has not called the cache
ReaderIdle == [pc |-> "idle", call |-> "none", uid |-> "", ret |-> FALSE,
               inUpdate |-> FALSE]

InitConc ==
    /\ EncIdle /\ RunIdle /\ ModIdle /\ PciIdle /\ DrainIdle /\ BestIdle
    /\ podUIDs = {} /\ claims = {}
    /\ lastPod = NoPod /\ lastVerdict = FALSE /\ lastEvent = NoEvent
    /\ rcc = NewRcc
    /\ ctxDone = FALSE
    /\ threads = [t \in Threads |->
                    IF t = "start" THEN [pc |-> "idle", syncOK |-> FALSE, err |-> "none"]
                    ELSE IF t = "closer" THEN [pc |-> "notStarted"]
                    ELSE IF t = "informer" THEN InformerIdle
                    ELSE ReaderIdle]

\* what the actions on the goroutines leave alone
concRest == <<lastPod, lastVerdict, lastEvent, encVars, runVars, modVars, pciVars,
              drainVars, bestVars>>

\* sync.RWMutex: Lock waits for the writer and for every reader
CanLock(mu) == mu.writer = "none" /\ mu.readers = {}

\* sync.RWMutex: RLock waits for the writer
CanRLock(mu) == mu.writer = "none"

\* Start: informerFactory.Start(rcc.stopCh)
FactoryStart ==
    /\ threads["start"].pc = "idle"
    /\ threads' = [threads EXCEPT !["start"].pc = "waitSync"]
    /\ UNCHANGED <<rcc, ctxDone, podUIDs, claims, concRest>>

\* mutant: Start does not look at the result of WaitForCacheSync
WaitForCacheSync_Ignored ==
    /\ threads["start"].pc = "waitSync"
    /\ \E ok \in BOOLEAN :
        threads' = [threads EXCEPT !["start"].syncOK = ok, !["start"].pc = "lock"]
    /\ UNCHANGED <<rcc, ctxDone, podUIDs, claims, concRest>>

\* Start: WaitForCacheSync returns once the informer has synced, or with
\* false when the 60 seconds are over or the context is cancelled; Start
\* returns an error for an informer that has not synced
WaitForCacheSync ==
    /\ threads["start"].pc = "waitSync"
    /\ \E ok \in BOOLEAN :
        threads' = [threads EXCEPT
                      !["start"].syncOK = ok,
                      !["start"].pc = IF ok THEN "lock" ELSE "returned",
                      !["start"].err = IF ok THEN "none"
                                       ELSE "failed to sync informer cache"]
    /\ UNCHANGED <<rcc, ctxDone, podUIDs, claims, concRest>>

\* mutant: Start writes the flag without taking the lock
StartLock_NoLock ==
    /\ threads["start"].pc = "lock"
    /\ threads' = [threads EXCEPT !["start"].pc = "setSynced"]
    /\ UNCHANGED <<rcc, ctxDone, podUIDs, claims, concRest>>

\* Start: rcc.mu.Lock()
StartLock ==
    /\ threads["start"].pc = "lock"
    /\ CanLock(rcc.mu)
    /\ rcc' = [rcc EXCEPT !.mu.writer = "start"]
    /\ threads' = [threads EXCEPT !["start"].pc = "setSynced"]
    /\ UNCHANGED <<ctxDone, podUIDs, claims, concRest>>

\* Start: rcc.synced = true
StartSetSynced ==
    /\ threads["start"].pc = "setSynced"
    /\ rcc' = [rcc EXCEPT !.synced = TRUE]
    /\ threads' = [threads EXCEPT !["start"].pc = "unlock"]
    /\ UNCHANGED <<ctxDone, podUIDs, claims, concRest>>

\* Start: rcc.mu.Unlock()
StartUnlock ==
    /\ threads["start"].pc = "unlock"
    /\ rcc' = [rcc EXCEPT !.mu.writer = IF rcc.mu.writer = "start" THEN "none"
                                        ELSE rcc.mu.writer]
    /\ threads' = [threads EXCEPT !["start"].pc = "spawn"]
    /\ UNCHANGED <<ctxDone, podUIDs, claims, concRest>>

\* Start: the goroutine that waits for ctx.Done() is started, Start returns nil
StartReturn ==
    /\ threads["start"].pc = "spawn"
    /\ threads' = [threads EXCEPT !["start"].pc = "returned", !["start"].err = "nil",
                                  !["closer"].pc = "waiting"]
    /\ UNCHANGED <<rcc, ctxDone, podUIDs, claims, concRest>>

\* the caller cancels the context
Cancel ==
    /\ ~ctxDone
    /\ ctxDone' = TRUE
    /\ UNCHANGED <<rcc, threads, podUIDs, claims, concRest>>

\* the goroutine of Start: <-ctx.Done(); close(rcc.stopCh)
CloseStopCh ==
    /\ threads["closer"].pc = "waiting"
    /\ ctxDone
    /\ rcc' = [rcc EXCEPT !.stopCh = "closed"]
    /\ threads' = [threads EXCEPT !["closer"].pc = "done"]
    /\ UNCHANGED <<ctxDone, podUIDs, claims, concRest>>

\* the informer runs from informerFactory.Start until stopCh is closed and
\* hands one event at a time to the handler
Delivering ==
    /\ threads["informer"].pc = "idle"
    /\ threads["start"].pc # "idle"
    /\ rcc.stopCh = "open"

\* AddFunc: handleClaim(true)
InformerAdd ==
    /\ Delivering
    /\ claims = {}
    /\ \E claim \in ConcClaimSamples :
        /\ claims' = {claim}
        /\ threads' = [threads EXCEPT !["informer"] =
                          [pc |-> "check", kind |-> "Added", old |-> NoClaim,
                           new |-> claim, pass |-> "add"]]
    /\ UNCHANGED <<rcc, ctxDone, podUIDs, concRest>>

\* UpdateFunc: onClaimUpdate, which starts with updatePodUIDs(oldClaim, false)
InformerUpdate ==
    /\ Delivering
    /\ \E oldClaim \in claims, newClaim \in ConcClaimSamples :
        /\ claims' = {newClaim}
        /\ threads' = [threads EXCEPT !["informer"] =
                          [pc |-> "check", kind |-> "Updated", old |-> oldClaim,
                           new |-> newClaim, pass |-> "remove"]]
    /\ UNCHANGED <<rcc, ctxDone, podUIDs, concRest>>

\* DeleteFunc: handleClaim(false)
InformerDelete ==
    /\ Delivering
    /\ \E claim \in claims :
        /\ claims' = {}
        /\ threads' = [threads EXCEPT !["informer"] =
                          [pc |-> "check", kind |-> "Deleted", old |-> claim,
                           new |-> NoClaim, pass |-> "remove"]]
    /\ UNCHANGED <<rcc, ctxDone, podUIDs, concRest>>

\* the claim the running call of updatePodUIDs was given
PassClaim(inf) == IF inf.pass = "remove" THEN inf.old ELSE inf.new

\* the handler after a call of updatePodUIDs has returned: onClaimUpdate
\* goes on with updatePodUIDs(newClaim, true), the other handlers return
AfterPass(inf) ==
    IF inf.kind = "Updated" /\ inf.pass = "remove"
    THEN [inf EXCEPT !.pc = "check", !.pass = "add"]
    ELSE InformerIdle

\* updatePodUIDs: return at once unless isNvidiaGPUClaim(claim)
UpdatePodUIDsCheck ==
    /\ threads["informer"].pc = "check"
    /\ threads' = [threads EXCEPT !["informer"] =
                      IF isNvidiaGPUClaim(PassClaim(@))
                      THEN [@ EXCEPT !.pc = "lock"]
                      ELSE AfterPass(@)]
    /\ UNCHANGED <<rcc, ctxDone, podUIDs, claims, concRest>>

\* updatePodUIDs: rcc.mu.Lock()
UpdatePodUIDsLock ==
    /\ threads["informer"].pc = "lock"
    /\ CanLock(rcc.mu)
    /\ rcc' = [rcc EXCEPT !.mu.writer = "informer"]
    /\ threads' = [threads EXCEPT !["informer"].pc = "mutate"]
    /\ UNCHANGED <<ctxDone, podUIDs, claims, concRest>>

\* updatePodUIDs: the loop over Status.ReservedFor
UpdatePodUIDsLoop ==
    /\ threads["informer"].pc = "mutate"
    /\ podUIDs' = updatePodUIDs(podUIDs, PassClaim(threads["informer"]),
                                threads["informer"].pass = "add")
    /\ threads' = [threads EXCEPT !["informer"].pc = "unlock"]
    /\ UNCHANGED <<rcc, ctxDone, claims, concRest>>

\* updatePodUIDs: the deferred rcc.mu.Unlock()
UpdatePodUIDsUnlock ==
    /\ threads["informer"].pc = "unlock"
    /\ rcc' = [rcc EXCEPT !.mu.writer = "none"]
    /\ threads' = [threads EXCEPT !["informer"] = AfterPass(@)]
    /\ UNCHANGED <<ctxDone, podUIDs, claims, concRest>>

\* onClaimUpdate is running for a claim the GPU driver allocated, and the pod
\* is in the reserved-for list of the old and of the new object
UpdateInProgressFor(uid) ==
    LET inf == threads["informer"]
    IN  /\ inf.kind = "Updated"
        /\ isNvidiaGPUClaim(inf.old) /\ isNvidiaGPUClaim(inf.new)
        /\ uid \in ReservedPods(inf.old) \cap ReservedPods(inf.new)

\* IsSynced / PodUsesNvidiaGPU: rcc.mu.RLock()
ReaderRLock ==
    \E r \in Readers :
        /\ threads[r].pc = "idle"
        /\ CanRLock(rcc.mu)
        /\ rcc' = [rcc EXCEPT !.mu.readers = @ \cup {r}]
        /\ \E call \in {[call |-> "IsSynced", uid |-> ""],
                        [call |-> "PodUsesNvidiaGPU", uid |-> "uid-A"]} :
            threads' = [threads EXCEPT ![r] =
                           [pc |-> "reading", call |-> call.call, uid |-> call.uid,
                            ret |-> FALSE, inUpdate |-> FALSE]]
        /\ UNCHANGED <<ctxDone, podUIDs, claims, concRest>>

\* IsSynced / PodUsesNvidiaGPU: the read, then the deferred RUnlock
ReaderReturn ==
    \E r \in Readers :
        /\ threads[r].pc = "reading"
        /\ rcc' = [rcc EXCEPT !.mu.readers = @ \ {r}]
        /\ threads' = [threads EXCEPT ![r] =
                          [pc |-> "idle", call |-> threads[r].call, uid |-> threads[r].uid,
                           ret |-> IF threads[r].call = "IsSynced" THEN rcc.synced
                                   ELSE PodUsesNvidiaGPU(threads[r].uid),
                           inUpdate |-> /\ threads[r].call = "PodUsesNvidiaGPU"
                                        /\ UpdateInProgressFor(threads[r].uid)]]
        /\ UNCHANGED <<ctxDone, podUIDs, claims, concRest>>

NextConc ==
    \/ FactoryStart
    \/ WaitForCacheSync
    \/ StartLock
    \/ StartSetSynced
    \/ StartUnlock
    \/ StartReturn
    \/ Cancel
    \/ CloseStopCh
    \/ InformerAdd
    \/ InformerUpdate
    \/ InformerDelete
    \/ UpdatePodUIDsCheck
    \/ UpdatePodUIDsLock
    \/ UpdatePodUIDsLoop
    \/ UpdatePodUIDsUnlock
    \/ ReaderRLock
    \/ ReaderReturn

SpecConc == InitConc /\ [][NextConc]_vars

\* every goroutine that can take a step takes one in the end
SpecConcLive == SpecConc /\ WF_vars(NextConc) /\ WF_vars(CloseStopCh)

\* the goroutine is between taking the write lock and releasing it
WriterInside(t) ==
    \/ t = "start" /\ threads[t].pc \in {"setSynced", "unlock"}
    \/ t = "informer" /\ threads[t].pc \in {"mutate", "unlock"}

\* the goroutine is between RLock and RUnlock
ReaderInside(r) == threads[r].pc = "reading"

\* C33: while a writer (updatePodUIDs, or Start writing the synced flag) is
\* inside its critical section no reader and no other writer is inside
\* its own; the write lock is held exactly by the writer that is between
\* Lock and Unlock, where it only changes the map or the flag, and by no
\* goroutine that has left that section.
C33_WritersExclusive ==
    /\ \A w \in {"start", "informer"} :
           WriterInside(w) =>
               /\ \A r \in Readers : ~ReaderInside(r)
               /\ \A v \in {"start", "informer"} \ {w} : ~WriterInside(v)
    /\ \A w \in {"start", "informer"} : (rcc.mu.writer = w) <=> WriterInside(w)
    /\ rcc.mu.readers = {r \in Readers : ReaderInside(r)}

\* two queries are inside their critical sections at once
C33_Witness ==
    /\ ReaderInside("reader1") /\ ReaderInside("reader2")
    /\ threads["informer"].pc = "lock"

\* Start has returned
StartReturned == threads["start"].pc = "returned"

\* what C34 says of every state
SyncedOnlyAfterSync ==
    /\ rcc.synced =>
           /\ threads["start"].syncOK
           /\ threads["start"].pc \in {"unlock", "spawn", "returned"}
    /\ StartReturned =>
           IF threads["start"].syncOK
           THEN threads["start"].err = "nil" /\ rcc.synced
           ELSE threads["start"].err = "failed to sync informer cache" /\ ~rcc.synced
    /\ \A r \in Readers :
           (threads[r].call = "IsSynced" /\ threads[r].pc = "idle" /\ threads[r].ret) =>
               rcc.synced

\* what C34 says of every step: the flag is never reset, and IsSynced
\* returns the flag
SyncedForever ==
    /\ rcc.synced => rcc'.synced
    /\ \A r \in Readers :
           (threads[r].pc = "reading" /\ threads'[r].pc = "idle"
            /\ threads[r].call = "IsSynced") => threads'[r].ret = rcc.synced

\* C34: Start returns only after WaitForCacheSync has returned, with nil and
\* the synced flag set when the informer synced, with an error and the flag
\* still false when it did not; the flag is false before Start has seen the
\* informer synced and is never reset; IsSynced returns the flag; and once
\* Start has returned nil and the context is cancelled, the stop channel is
\* closed in the end.
C34_StartSyncsOrFails ==
    /\ []SyncedOnlyAfterSync
    /\ [][SyncedForever]_vars
    /\ ((threads["start"].err = "nil" /\ ctxDone) ~> (rcc.stopCh = "closed"))

\* Start returned nil, a query saw the flag set, the context was cancelled and
\* the stop channel is closed
C34_Witness ==
    /\ StartReturned /\ threads["start"].err = "nil"
    /\ rcc.stopCh = "closed"
    /\ \E r \in Readers :
           threads[r].call = "IsSynced" /\ threads[r].pc = "idle" /\ threads[r].ret

\* C35: a PodUsesNvidiaGPU query that reads the map while onClaimUpdate is
\* running for a claim the GPU driver allocated, for a pod that is in the
\* reserved-for list of the old and of the new object, answers true.
C35_UpdateNotObservable ==
    \A r \in Readers : threads[r].inUpdate => threads[r].ret

(***************************************************************************)
(* SpecBest: findBestVFIOVariant picks the vfio driver of a device from    *)
(* the vfio_pci aliases of modules.alias                                   *)
(***************************************************************************)
\* modules.alias has at most MaxAliases vfio_pci lines here
MaxAliases == 3

vfioPCIDriverName == "vfio-pci"

\* the modalias of the device whose driver is looked up
BestDevice == [f \in 1..Len(modAliasFields) |-> "000010DE"]

\* the patterns of the alias lines: the device itself, the device with
\* wildcards in the last three or five fields, every field a wildcard, and
\* another device
BestPatterns ==
    {[f \in 1..Len(modAliasFields) |-> IF f > Len(modAliasFields) - n THEN "*" ELSE "000010DE"] :
        n \in {0, 3, 5, Len(modAliasFields)}}
    \cup {[f \in 1..Len(modAliasFields) |-> IF f = 2 THEN "00002330" ELSE "*"]}

\* the vfio_pci alias lines getVFIOAliases returns
AliasSamples ==
    [modAlias : BestPatterns, driver : {"vfio_pci"}]
    \cup [modAlias : {p \in BestPatterns : p[5] = "*" /\ p[1] # "*"},
          driver : {"nvgrace_gpu_vfio_pci"}]

\* mutant: a later alias with as few wildcards replaces the best one
IsBetter_OrEqual(wildcardCount, bestWildcardCount) == wildcardCount <= bestWildcardCount

\* findBestMatch: the test that makes an alias the best one so far
IsBetter(wildcardCount, bestWildcardCount) == wildcardCount < bestWildcardCount

\* math.MaxInt, as far as the wildcard counts go
MaxInt == 2147483647

RECURSIVE findBestMatchFrom(_, _, _, _, _)
\* findBestMatch: the loop over the aliases from position i on
findBestMatchFrom(i, deviceModAlias, aliases, bestDriver, bestWildcardCount) ==
    IF i > Len(aliases) THEN bestDriver
    ELSE LET r == matchModalias(deviceModAlias, aliases[i].modAlias)
         IN  IF r.match /\ IsBetter(r.wildcardCount, bestWildcardCount)
             THEN findBestMatchFrom(i + 1, deviceModAlias, aliases, aliases[i].driver,
                                    r.wildcardCount)
             ELSE findBestMatchFrom(i + 1, deviceModAlias, aliases, bestDriver,
                                    bestWildcardCount)

\* findBestMatch
findBestMatch(deviceModAlias, aliases) ==
    findBestMatchFrom(1, deviceModAlias, aliases, "", MaxInt)

\* findBestVFIOVariant, once the modalias and modules.alias have been read:
\* the default driver when there is no vfio alias or no alias matches
findBestVFIOVariant(deviceModAlias, vfioAliases) ==
    IF Len(vfioAliases) = 0 THEN vfioPCIDriverName
    ELSE IF findBestMatch(deviceModAlias, vfioAliases) = "" THEN vfioPCIDriverName
    ELSE findBestMatch(deviceModAlias, vfioAliases)

InitBest ==
    /\ EncIdle /\ GpuIdle /\ RunIdle /\ ModIdle /\ PciIdle /\ DrainIdle /\ ConcIdle
    /\ lastBest = NoBest

\* bindToVFIODriver looks up the driver of the device
FindBestVFIOVariant ==
    /\ lastBest = NoBest
    /\ \E vfioAliases \in SeqsUpTo(AliasSamples, MaxAliases) :
        lastBest' = [aliases |-> vfioAliases,
                     bestMatch |-> findBestMatch(BestDevice, vfioAliases),
                     variant |-> findBestVFIOVariant(BestDevice, vfioAliases)]
    /\ UNCHANGED <<encVars, gpuVars, runVars, modVars, pciVars, drainVars, concVars>>

NextBest == FindBestVFIOVariant

SpecBest == InitBest /\ [][NextBest]_vars

\* the positions of the aliases whose pattern matches the device: every
\* field is the wildcard or the device's value
MatchingAliases(aliases) ==
    {i \in 1..Len(aliases) :
        \A f \in 1..Len(modAliasFields) :
            aliases[i].modAlias[f] \in {"*", BestDevice[f]}}

\* the number of wildcard fields of a pattern
Wildcards(pattern) == Cardinality({f \in 1..Len(modAliasFields) : pattern[f] = "*"})

\* the first of the matching aliases with the fewest wildcards
FirstBest(aliases) ==
    CHOOSE i \in MatchingAliases(aliases) :
        \A j \in MatchingAliases(aliases) :
            \/ Wildcards(aliases[i].modAlias) < Wildcards(aliases[j].modAlias)
            \/ Wildcards(aliases[i].modAlias) = Wildcards(aliases[j].modAlias) /\ i <= j

\* C39: findBestMatch returns the driver of the first of the matching
\* aliases that have the fewest wildcard fields, and "" when no alias
\* matches; findBestVFIOVariant returns that driver, or "vfio-pci" when
\* there is no alias or no match.
C39_BestMatchFewestWildcards ==
    lastBest # NoBest =>
        /\ lastBest.bestMatch =
               IF MatchingAliases(lastBest.aliases) = {} THEN ""
               ELSE lastBest.aliases[FirstBest(lastBest.aliases)].driver
        /\ lastBest.variant =
               IF lastBest.aliases = <<>> \/ MatchingAliases(lastBest.aliases) = {}
               THEN "vfio-pci"
               ELSE lastBest.bestMatch

\* two aliases match with three wildcards each, after one with more
\* wildcards: the first of the two is chosen
C39_Witness ==
    /\ Len(lastBest.aliases) = 3
    /\ MatchingAliases(lastBest.aliases) = {1, 2, 3}
    /\ Wildcards(lastBest.aliases[1].modAlias) = 7
    /\ Wildcards(lastBest.aliases[2].modAlias) = 3
    /\ Wildcards(lastBest.aliases[3].modAlias) = 3
    /\ lastBest.aliases[2].driver = "nvgrace_gpu_vfio_pci"
    /\ lastBest.aliases[3].driver = "vfio_pci"
    /\ lastBest.variant = "nvgrace_gpu_vfio_pci"
====
